---- MODULE Spec2Model ----
(***************************************************************************)
(* Model of the TPM 2.0 command layer of tpm2d (src/tpm2d/tpm2_commands.c). *)
(*                                                                         *)
(* The layer is single threaded: one call runs at a time (pc = "idle"      *)
(* between calls, "returned" when a call has just handed back its result). *)
(* A call is a sequence of steps, one per device command *)
(* it issues through TSS_Execute; the device answers each command with    *)
(* success or with a failure response code of its own choosing.           *)
(* Every command of the running call is appended to log, and the value a  *)
(* call hands back to its caller is kept in ret.                           *)
(***************************************************************************)
EXTENDS Integers, Sequences, FiniteSets, TLC

(***************************************************************************)
(* Bounds of the model.                                                    *)
(***************************************************************************)
MaxSessions == 2    \* session slots of the device
MaxRand     == 3    \* largest rand_length asked of tpm2_getrandom_new
MaxNvSize   == 2    \* largest declared size of an NV index; payloads, output
                    \* buffers and the device's transfer size range up to it
MaxChunk    == 2    \* most bytes the device returns to one GetRandom

\* the data bytes that occur
Byte == {1, 2}

SeqsUpTo(S, n) == UNION {[1..k -> S] : k \in 0..n}

Min(a, b) == IF a < b THEN a ELSE b

(***************************************************************************)
(* Response codes, by name.                                                *)
(***************************************************************************)
TPM_RC_SUCCESS == "TPM_RC_SUCCESS"

\* failure codes a device (or the transport to it) may answer any command with
DeviceFailures == {"TPM_RC_FAILURE", "TPM_RC_RETRY"}

(***************************************************************************)
(* Handles.  The top 8 bits of a handle are its type tag.                  *)
(***************************************************************************)
TPM_HT_NV_INDEX == 1
TPM_RH_NULL     == 1073741831     \* 0x40000007
TPM_RH_OWNER    == 1073741825     \* 0x40000001
TPM_RH_PLATFORM == 1073741836     \* 0x4000000C

HandleType(handle) == (handle \div 16777216) % 256     \* handle >> 24, 32 bits

NvIndexHandle == 16777217         \* 0x01000001, an NV index
BadNvHandle   == 50331649         \* 0x03000001, a policy session handle

SessionHandles == {33554432 + i : i \in 1..MaxSessions}   \* 0x02000000 + i

\* value of a handle variable that was never assigned
NoHandle == 0

(***************************************************************************)
(* Passwords are C strings, sequences of non-zero bytes; NULL stands for   *)
(* the null pointer passed in place of one.                                *)
(* TSS_TPM2B_StringCopy refuses a string longer than its target.          *)
(***************************************************************************)
NULL == <<0>>

\* a null pointer where a character string is expected
NULL_STR == <<"NULL">>
SizeofTPMU_HA == 64
ShortPwd == <<1>>
LongPwd  == [i \in 1..(SizeofTPMU_HA + 1) |-> 1]

\* the authorization value a password argument stands for
AuthOf(pwd) == IF pwd = NULL THEN <<>> ELSE pwd

StringCopyRc(pwd, target_size) ==
    IF Len(pwd) > target_size THEN "TSS_RC_INSUFFICIENT_BUFFER" ELSE TPM_RC_SUCCESS

VARIABLES
    tss_context,    \* TRUE iff the static tss_context is not NULL
    pc,             \* position of the running call, "idle" between calls
    call,           \* the arguments of the running (or last) call
    l,              \* the local variables of the running call
    log,            \* device commands of the running (or last) call, in order
    ret,            \* what the last completed call returned (NoRet during a call)
    sessions,       \* device: session handles in use
    nv,             \* device: the NV index
    nv_buffer_max,  \* device: TPM_PT_NV_BUFFER_MAX
    objects,        \* device: handles of the loaded transient objects
    files,          \* blob store: the names written, each with its content
    nv_before,      \* history: the NV index as it was when the running call began
    files_before,   \* history: the blob store as it was when the running call began
    last_write      \* history: the payload of the last tpm2_nv_write that
                    \* returned success, while the index still holds that write

vars == <<tss_context, pc, call, l, log, ret, sessions, nv, nv_buffer_max,
          objects, files, nv_before, files_before, last_write>>

dev == <<sessions, nv, nv_buffer_max, objects>>

(***************************************************************************)
(* Records of the model.                                                   *)
(***************************************************************************)
NoCall == [op |-> "none", handle |-> NoHandle, pwd |-> NULL, data |-> <<>>,
           size |-> 0, hierarchy |-> TPM_RH_NULL, hpwd |-> NULL,
           key_type |-> "none", qd |-> NULL_STR, asym |-> "none",
           file |-> NULL_STR, file_priv |-> NULL_STR, object_vals |-> {}]

NoLocals == [rc |-> TPM_RC_SUCCESS, rc_flush |-> TPM_RC_SUCCESS,
             se_handle |-> NoHandle, recv_bytes |-> 0, rand |-> <<>>,
             data_size |-> 0, buffer_max |-> 0, in |-> <<>>,
             out_buffer |-> <<>>, out_length |-> 0]

NoRet == [op |-> "none", rc |-> TPM_RC_SUCCESS, out |-> <<>>, out_length |-> 0]

NvUndefined == [defined |-> FALSE, dataSize |-> 0, auth |-> <<>>,
                written |-> FALSE, data |-> <<>>, attributes |-> {}]

NoWrite == [valid |-> FALSE, data |-> <<>>, pwd |-> NULL]

\* a device command as logged: command code, the handle it names, its other
\* parameters, the response code and the response parameters
CmdOut(cc, handle, param, rc, out) ==
    [cc |-> cc, h |-> handle, p |-> param, rc |-> rc, out |-> out]

Cmd(cc, handle, param, rc) == CmdOut(cc, handle, param, rc, <<>>)

Init ==
    /\ tss_context = FALSE
    /\ pc = "idle"
    /\ call = NoCall
    /\ l = NoLocals
    /\ log = <<>>
    /\ ret = NoRet
    /\ sessions = {}
    /\ nv = NvUndefined
    /\ nv_buffer_max \in 1..MaxNvSize
    /\ objects = {}
    /\ files = {}
    /\ nv_before = NvUndefined
    /\ files_before = {}
    /\ last_write = NoWrite

(***************************************************************************)
(* Context lifecycle.                                                      *)
(***************************************************************************)
tss2_init ==
    /\ pc = "idle"
    /\ ~tss_context
    /\ tss_context' = TRUE
    /\ UNCHANGED <<pc, call, l, log, ret, dev, nv_before, files_before, last_write, files>>

tss2_destroy ==
    /\ pc = "idle"
    /\ tss_context
    /\ tss_context' = FALSE
    /\ UNCHANGED <<pc, call, l, log, ret, dev, nv_before, files_before, last_write, files>>

\* the running call returns: its locals go out of scope
Return(op, rc, out, out_length) ==
    /\ pc' = "returned"
    /\ l' = NoLocals
    /\ ret' = [op |-> op, rc |-> rc, out |-> out, out_length |-> out_length]

\* the caller has taken the result of the call that returned
CallerContinues ==
    /\ pc = "returned"
    /\ pc' = "idle"
    /\ call' = NoCall
    /\ log' = <<>>
    /\ ret' = NoRet
    /\ nv_before' = nv
    /\ files_before' = files
    /\ UNCHANGED <<tss_context, l, dev, last_write, files>>

(***************************************************************************)
(* The device's answers.                                                   *)
(***************************************************************************)
\* StartAuthSession: the lowest free slot is taken on success; the bind
\* target must exist
StartAuthSessionAnswers(bind_handle) ==
    {[rc |-> TPM_RC_SUCCESS, sessionHandle |-> h] :
        h \in {f \in SessionHandles \ sessions :
                 \A g \in SessionHandles \ sessions : f <= g}}
    \cup {[rc |-> e, sessionHandle |-> NoHandle] :
            e \in DeviceFailures \cup
                  (IF SessionHandles \subseteq sessions
                   THEN {"TPM_RC_SESSION_MEMORY"} ELSE {})}

\* FlushContext: the slot named by the command is released; the response code
\* that reaches the caller may still be a failure
FlushContextAnswers == {TPM_RC_SUCCESS} \cup DeviceFailures

SessionsAfterStart(answer) ==
    IF answer.rc = TPM_RC_SUCCESS THEN sessions \cup {answer.sessionHandle}
    ELSE sessions

SessionsAfterFlush(handle) == sessions \ {handle}

(***************************************************************************)
(* tpm2_startauthsession and tpm2_flushcontext, as steps of a call.        *)
(***************************************************************************)
\* the command tpm2_startauthsession sends, with the handle it got back
StartAuthSessionCmd(bind_handle, answer) ==
    CmdOut("TPM_CC_StartAuthSession", bind_handle, "TPM_SE_HMAC", answer.rc,
           answer.sessionHandle)

\* the command tpm2_flushcontext sends
FlushContextCmd(handle, rc) == Cmd("TPM_CC_FlushContext", handle, <<>>, rc)

(***************************************************************************)
(* tpm2_getrandom_new                                                      *)
(***************************************************************************)
Zeros(n) == [i \in 1..n |-> 0]

Memcpy_to_start(dst, at, src) ==
    [i \in 1..Len(dst) |-> IF i <= Len(src) THEN src[i] ELSE dst[i]]

\* memcpy(&dst[at], src, Len(src)) for at counted from 0
Memcpy(dst, at, src) ==
    [i \in 1..Len(dst) |->
        IF i > at /\ i <= at + Len(src) THEN src[i - at] ELSE dst[i]]

\* GetRandom: at least one byte and no more than asked for (none when none
\* is asked for)
GetRandomAnswers(bytesRequested) ==
    {[rc |-> TPM_RC_SUCCESS, randomBytes |-> b] :
        b \in {s \in SeqsUpTo(Byte, Min(bytesRequested, MaxChunk)) :
                 Len(s) >= Min(bytesRequested, 1)}}
    \cup {[rc |-> e, randomBytes |-> <<>>] : e \in DeviceFailures}

\* after the request loop: the error path returns, the success path flushes
getrandom_after_loop(rc) ==
    IF rc # TPM_RC_SUCCESS THEN "return" ELSE "flush"

getrandom_continue_inclusive(recv_bytes, rand_length) == recv_bytes <= rand_length

\* the loop condition of the do-while
getrandom_continue(recv_bytes, rand_length) == recv_bytes < rand_length

getrandom_again_on_failure(rc, recv_bytes, rand_length) ==
    getrandom_continue(recv_bytes, rand_length)

\* another GetRandom is sent: the last one succeeded (else break) and bytes
\* are still missing
getrandom_again(rc, recv_bytes, rand_length) ==
    rc = TPM_RC_SUCCESS /\ getrandom_continue(recv_bytes, rand_length)

\* the value returned after the flush
getrandom_result(rand, rc_flush) == [rc |-> "NONNULL", out |-> rand]

tpm2_getrandom_new ==
    /\ pc = "idle"
    /\ \E rand_length \in 0..MaxRand :
        /\ call' = [NoCall EXCEPT !.op = "tpm2_getrandom_new", !.size = rand_length]
        /\ log' = <<>>
        /\ IF ~tss_context
           THEN Return("tpm2_getrandom_new", "NULL", <<>>, 0)
           ELSE pc' = "getrandom_start" /\ ret' = NoRet /\ l' = NoLocals
    /\ UNCHANGED <<tss_context, dev, nv_before, files_before, last_write, files>>

getrandom_start ==
    /\ pc = "getrandom_start"
    /\ \E answer \in StartAuthSessionAnswers(TPM_RH_NULL) :
        /\ log' = Append(log, StartAuthSessionCmd(TPM_RH_NULL, answer))
        /\ sessions' = SessionsAfterStart(answer)
        /\ IF answer.rc # TPM_RC_SUCCESS
           THEN Return("tpm2_getrandom_new", "NULL", <<>>, 0)
           ELSE /\ pc' = "getrandom_loop"
                /\ ret' = NoRet
                /\ l' = [l EXCEPT !.rc = answer.rc,
                                  !.se_handle = answer.sessionHandle,
                                  !.rand = Zeros(call.size),
                                  !.recv_bytes = 0]
    /\ UNCHANGED <<tss_context, call, nv, nv_buffer_max, objects, nv_before, files_before, last_write, files>>

getrandom_loop ==
    /\ pc = "getrandom_loop"
    /\ LET bytesRequested == call.size - l.recv_bytes IN
       \E answer \in GetRandomAnswers(bytesRequested) :
        LET recv == IF answer.rc = TPM_RC_SUCCESS
                    THEN l.recv_bytes + Len(answer.randomBytes)
                    ELSE l.recv_bytes
            rand == IF answer.rc = TPM_RC_SUCCESS
                    THEN Memcpy(l.rand, l.recv_bytes, answer.randomBytes)
                    ELSE l.rand
            locals == [l EXCEPT !.rc = answer.rc, !.recv_bytes = recv, !.rand = rand]
        IN
        /\ log' = Append(log, CmdOut("TPM_CC_GetRandom", l.se_handle,
                                      bytesRequested, answer.rc,
                                      answer.randomBytes))
        /\ IF getrandom_again(answer.rc, recv, call.size)
           THEN pc' = "getrandom_loop" /\ ret' = NoRet /\ l' = locals
           ELSE IF getrandom_after_loop(answer.rc) = "return"
                THEN Return("tpm2_getrandom_new", "NULL", <<>>, 0)
                ELSE pc' = "getrandom_flush" /\ ret' = NoRet /\ l' = locals
    /\ UNCHANGED <<tss_context, call, dev, nv_before, files_before, last_write, files>>

getrandom_flush ==
    /\ pc = "getrandom_flush"
    /\ \E rc_flush \in FlushContextAnswers :
        LET r == getrandom_result(l.rand, rc_flush) IN
        /\ log' = Append(log, FlushContextCmd(l.se_handle, rc_flush))
        /\ sessions' = SessionsAfterFlush(l.se_handle)
        /\ Return("tpm2_getrandom_new", r.rc, r.out, Len(r.out))
    /\ UNCHANGED <<tss_context, call, nv, nv_buffer_max, objects, nv_before, files_before, last_write, files>>

\* tpm2_getrandom_new on its own.  Every step of a call is taken in the end:
\* the code is sequential and the transport answers each command.
RandomNext ==
    \/ tss2_init
    \/ tss2_destroy
    \/ CallerContinues
    \/ tpm2_getrandom_new
    \/ getrandom_start
    \/ getrandom_loop
    \/ getrandom_flush

SpecRandomFair ==
    /\ Init /\ [][RandomNext]_vars
    /\ WF_vars(getrandom_start)
    /\ WF_vars(getrandom_loop)
    /\ WF_vars(getrandom_flush)

(***************************************************************************)
(* The device's NV index and its answers to the NV commands.               *)
(***************************************************************************)
TPM_NT_ORDINARY == 0
DefaultBufferSize == 512

\* bytes of an ordinary index that were never written
NvFill == 255

NV_DefineSpaceAnswers(nvIndex, dataSize, auth, attributes) ==
    (IF ~nv.defined
     THEN {[rc |-> TPM_RC_SUCCESS,
            nv |-> [defined |-> TRUE, dataSize |-> dataSize, auth |-> auth,
                    written |-> FALSE, data |-> [i \in 1..dataSize |-> NvFill],
                    attributes |-> attributes]]}
     ELSE {[rc |-> "TPM_RC_NV_DEFINED", nv |-> nv]})
    \cup {[rc |-> e, nv |-> nv] : e \in DeviceFailures}

\* the session is bound to the index with bind_pwd: the command is authorized
\* when that is the index's authorization value
NV_WriteAnswers(bind_pwd, data, offset) ==
    (IF ~nv.defined THEN {[rc |-> "TPM_RC_HANDLE", nv |-> nv]}
     ELSE IF AuthOf(bind_pwd) # nv.auth THEN {[rc |-> "TPM_RC_AUTH_FAIL", nv |-> nv]}
     ELSE IF Len(data) > nv_buffer_max THEN {[rc |-> "TPM_RC_SIZE", nv |-> nv]}
     ELSE IF offset + Len(data) > nv.dataSize THEN {[rc |-> "TPM_RC_NV_RANGE", nv |-> nv]}
     ELSE {[rc |-> TPM_RC_SUCCESS,
            nv |-> [nv EXCEPT !.written = TRUE,
                              !.data = [i \in 1..nv.dataSize |->
                                          IF i > offset /\ i <= offset + Len(data)
                                          THEN data[i - offset] ELSE nv.data[i]]]]})
    \cup {[rc |-> e, nv |-> nv] : e \in DeviceFailures}

NV_ReadAnswers(bind_pwd, size, offset) ==
    (IF ~nv.defined THEN {[rc |-> "TPM_RC_HANDLE", data |-> <<>>]}
     ELSE IF AuthOf(bind_pwd) # nv.auth THEN {[rc |-> "TPM_RC_AUTH_FAIL", data |-> <<>>]}
     ELSE IF ~nv.written THEN {[rc |-> "TPM_RC_NV_UNINITIALIZED", data |-> <<>>]}
     ELSE IF size > nv_buffer_max THEN {[rc |-> "TPM_RC_VALUE", data |-> <<>>]}
     ELSE IF offset + size > nv.dataSize THEN {[rc |-> "TPM_RC_NV_RANGE", data |-> <<>>]}
     ELSE {[rc |-> TPM_RC_SUCCESS,
            data |-> [i \in 1..size |-> nv.data[offset + i]]]})
    \cup {[rc |-> e, data |-> <<>>] : e \in DeviceFailures}

NV_ReadPublicAnswers ==
    (IF nv.defined
     THEN {[rc |-> TPM_RC_SUCCESS, nt |-> TPM_NT_ORDINARY, dataSize |-> nv.dataSize]}
     ELSE {[rc |-> "TPM_RC_HANDLE", nt |-> TPM_NT_ORDINARY, dataSize |-> 0]})
    \cup {[rc |-> e, nt |-> TPM_NT_ORDINARY, dataSize |-> 0] : e \in DeviceFailures}

\* GetCapability(TPM_CAP_TPM_PROPERTIES, TPM_PT_NV_BUFFER_MAX, 1): the property,
\* or an empty list, or a failure
GetCapabilityAnswers ==
    {[rc |-> TPM_RC_SUCCESS, count |-> 1, property |-> "TPM_PT_NV_BUFFER_MAX",
      value |-> nv_buffer_max],
     [rc |-> TPM_RC_SUCCESS, count |-> 0, property |-> "none", value |-> 0]}
    \cup {[rc |-> e, count |-> 0, property |-> "none", value |-> 0] :
            e \in DeviceFailures}

\* Clear removes the indices of the owner hierarchy
ClearAnswers ==
    {[rc |-> TPM_RC_SUCCESS,
      nv |-> IF "TPMA_NVA_PLATFORMCREATE" \in nv.attributes THEN nv ELSE NvUndefined]}
    \cup {[rc |-> e, nv |-> nv] : e \in DeviceFailures}

(***************************************************************************)
(* tpm2_clear                                                              *)
(***************************************************************************)
tpm2_clear ==
    /\ pc = "idle"
    /\ call' = [NoCall EXCEPT !.op = "tpm2_clear"]
    /\ IF ~tss_context
       THEN /\ Return("tpm2_clear", "TSS_RC_NULL_PARAMETER", <<>>, 0)
            /\ log' = <<>>
            /\ nv' = nv
            /\ last_write' = last_write
       ELSE \E answer \in ClearAnswers :
            /\ log' = <<Cmd("TPM_CC_Clear", TPM_RH_NULL, <<>>, answer.rc)>>
            /\ nv' = answer.nv
            /\ last_write' = IF answer.nv = nv THEN last_write ELSE NoWrite
            /\ Return("tpm2_clear", answer.rc, <<>>, 0)
    /\ UNCHANGED <<tss_context, sessions, nv_buffer_max, objects, nv_before, files_before, files>>

(***************************************************************************)
(* The sizing queries.                                                     *)
(***************************************************************************)
\* tpm2_nv_get_data_size, from the answer to NV_ReadPublic
tpm2_nv_get_data_size(answer) ==
    IF answer.rc # TPM_RC_SUCCESS THEN 0
    ELSE IF answer.nt = TPM_NT_ORDINARY THEN answer.dataSize
    ELSE 0

\* tpm2_nv_get_max_buffer_size, from the answer to GetCapability
tpm2_nv_get_max_buffer_size(answer) ==
    IF answer.rc # TPM_RC_SUCCESS THEN DefaultBufferSize
    ELSE IF answer.count > 0 /\ answer.property = "TPM_PT_NV_BUFFER_MAX"
         THEN answer.value
    ELSE DefaultBufferSize

(***************************************************************************)
(* What the three NV calls share.                                          *)
(***************************************************************************)
nv_result_flush_first(rc, rc_flush) ==
    IF rc_flush # TPM_RC_SUCCESS THEN rc_flush ELSE rc

nv_result_ignore_flush(rc, rc_flush) == rc

nv_result_flush_only(rc, rc_flush) == rc_flush

\* the err: label: a failed command's code wins, else the flush's code
nv_result(rc, rc_flush) == IF rc # TPM_RC_SUCCESS THEN rc ELSE rc_flush

nv_handle_any(nv_index_handle) == TRUE

\* the handle check at the top of each NV call
nv_handle_ok(nv_index_handle) == HandleType(nv_index_handle) = TPM_HT_NV_INDEX

\* one step: tpm2_startauthsession(TPM_SE_HMAC, &se_handle, bind, pwd); on
\* failure the call goes to err: and returns
NvStartSession(op, bind_handle, next_pc) ==
    \E answer \in StartAuthSessionAnswers(bind_handle) :
        /\ log' = Append(log, StartAuthSessionCmd(bind_handle, answer))
        /\ sessions' = SessionsAfterStart(answer)
        /\ IF answer.rc # TPM_RC_SUCCESS
           THEN Return(op, nv_result(answer.rc, l.rc_flush), <<>>, l.out_length)
           ELSE /\ pc' = next_pc
                /\ ret' = NoRet
                /\ l' = [l EXCEPT !.rc = answer.rc,
                                  !.se_handle = answer.sessionHandle]

\* one step: rc_flush = tpm2_flushcontext(se_handle), then err: and return
NvFlushAndReturn(op, out, out_length) ==
    \E rc_flush \in FlushContextAnswers :
        /\ log' = Append(log, FlushContextCmd(l.se_handle, rc_flush))
        /\ sessions' = SessionsAfterFlush(l.se_handle)
        /\ Return(op, nv_result(l.rc, rc_flush), out, out_length)

(***************************************************************************)
(* tpm2_nv_definespace                                                     *)
(***************************************************************************)
NvAttributes(hierarchy) ==
    (IF hierarchy = TPM_RH_PLATFORM
     THEN {"TPMA_NVA_PLATFORMCREATE", "TPMA_NVA_PPWRITE", "TPMA_NVA_PPREAD"}
     ELSE {"TPMA_NVA_OWNERWRITE", "TPMA_NVA_OWNERREAD"})
    \cup {"TPMA_NVA_ORDINARY", "TPMA_NVA_AUTHREAD", "TPMA_NVA_AUTHWRITE"}

tpm2_nv_definespace ==
    /\ pc = "idle"
    /\ \E hierarchy \in {TPM_RH_PLATFORM, TPM_RH_OWNER},
          nv_index_handle \in {NvIndexHandle, BadNvHandle},
          nv_size \in 1..MaxNvSize,
          nv_pwd \in {NULL, ShortPwd, LongPwd} :
        /\ call' = [NoCall EXCEPT !.op = "tpm2_nv_definespace",
                                  !.hierarchy = hierarchy,
                                  !.handle = nv_index_handle,
                                  !.size = nv_size, !.pwd = nv_pwd]
        /\ log' = <<>>
        /\ IF ~tss_context
           THEN Return("tpm2_nv_definespace", "TSS_RC_NULL_PARAMETER", <<>>, 0)
           ELSE IF ~nv_handle_ok(nv_index_handle)
           THEN Return("tpm2_nv_definespace", "TSS_RC_BAD_HANDLE_NUMBER", <<>>, 0)
           ELSE IF nv_pwd # NULL /\ StringCopyRc(nv_pwd, SizeofTPMU_HA) # TPM_RC_SUCCESS
           THEN Return("tpm2_nv_definespace", StringCopyRc(nv_pwd, SizeofTPMU_HA),
                       <<>>, 0)
           ELSE /\ pc' = "definespace_start"
                /\ ret' = NoRet
                /\ l' = [NoLocals EXCEPT !.in =
                           [auth |-> AuthOf(nv_pwd), nvIndex |-> nv_index_handle,
                            dataSize |-> nv_size,
                            attributes |-> NvAttributes(hierarchy)]]
    /\ UNCHANGED <<tss_context, dev, nv_before, files_before, last_write, files>>

definespace_start ==
    /\ pc = "definespace_start"
    /\ NvStartSession("tpm2_nv_definespace", call.hierarchy, "definespace_exec")
    /\ UNCHANGED <<tss_context, call, nv, nv_buffer_max, objects, nv_before, files_before, last_write, files>>

definespace_exec ==
    /\ pc = "definespace_exec"
    /\ \E answer \in NV_DefineSpaceAnswers(l.in.nvIndex, l.in.dataSize, l.in.auth,
                                           l.in.attributes) :
        /\ log' = Append(log, Cmd("TPM_CC_NV_DefineSpace", l.in.nvIndex,
                                   l.in.dataSize, answer.rc))
        /\ nv' = answer.nv
        /\ last_write' = IF answer.rc = TPM_RC_SUCCESS THEN NoWrite ELSE last_write
        /\ l' = [l EXCEPT !.rc = answer.rc]
        /\ pc' = "definespace_flush"
    /\ UNCHANGED <<tss_context, call, ret, sessions, nv_buffer_max, objects, nv_before, files_before, files>>

definespace_flush ==
    /\ pc = "definespace_flush"
    /\ NvFlushAndReturn("tpm2_nv_definespace", <<>>, 0)
    /\ UNCHANGED <<tss_context, call, nv, nv_buffer_max, objects, nv_before, files_before, last_write, files>>

(***************************************************************************)
(* tpm2_nv_write                                                           *)
(***************************************************************************)
nv_write_in_offset(data, data_length) ==
    [data |-> SubSeq(data, 1, data_length), offset |-> 1]

\* the NV_Write parameters: the whole payload at offset zero
nv_write_in(data, data_length) ==
    [data |-> SubSeq(data, 1, data_length), offset |-> 0]

\* the NV_Read parameters: the declared size at offset zero
nv_read_in(data_size) == [size |-> data_size, offset |-> 0]

nv_write_too_large_at_max(data_length, buffer_max) == data_length >= buffer_max

\* the single-chunk check on the payload
nv_write_too_large(data_length, buffer_max) == data_length > buffer_max

tpm2_nv_write ==
    /\ pc = "idle"
    /\ \E nv_index_handle \in {NvIndexHandle, BadNvHandle},
          nv_pwd \in {NULL, ShortPwd},
          data \in SeqsUpTo(Byte, MaxNvSize) :
        /\ call' = [NoCall EXCEPT !.op = "tpm2_nv_write",
                                  !.handle = nv_index_handle,
                                  !.pwd = nv_pwd, !.data = data,
                                  !.size = Len(data)]
        /\ log' = <<>>
        /\ IF ~tss_context
           THEN Return("tpm2_nv_write", "TSS_RC_NULL_PARAMETER", <<>>, 0)
           ELSE IF ~nv_handle_ok(nv_index_handle)
           THEN Return("tpm2_nv_write", "TSS_RC_BAD_HANDLE_NUMBER", <<>>, 0)
           ELSE /\ pc' = "write_max_buffer"
                /\ ret' = NoRet
                /\ l' = NoLocals
    /\ UNCHANGED <<tss_context, dev, nv_before, files_before, last_write, files>>

write_max_buffer ==
    /\ pc = "write_max_buffer"
    /\ \E answer \in GetCapabilityAnswers :
        LET buffer_max == tpm2_nv_get_max_buffer_size(answer) IN
        /\ log' = Append(log, CmdOut("TPM_CC_GetCapability", TPM_RH_NULL,
                                      "TPM_PT_NV_BUFFER_MAX", answer.rc,
                                      [count |-> answer.count,
                                       value |-> answer.value]))
        /\ IF nv_write_too_large(call.size, buffer_max)
           THEN Return("tpm2_nv_write",
                       nv_result("TSS_RC_INSUFFICIENT_BUFFER", l.rc_flush), <<>>, 0)
           ELSE /\ pc' = "write_start"
                /\ ret' = NoRet
                /\ l' = [l EXCEPT !.buffer_max = buffer_max,
                                  !.in = nv_write_in(call.data, call.size)]
    /\ UNCHANGED <<tss_context, call, dev, nv_before, files_before, last_write, files>>

write_start ==
    /\ pc = "write_start"
    /\ NvStartSession("tpm2_nv_write", call.handle, "write_exec")
    /\ UNCHANGED <<tss_context, call, nv, nv_buffer_max, objects, nv_before, files_before, last_write, files>>

write_exec ==
    /\ pc = "write_exec"
    /\ \E answer \in NV_WriteAnswers(call.pwd, l.in.data, l.in.offset) :
        /\ log' = Append(log, Cmd("TPM_CC_NV_Write", call.handle, l.in, answer.rc))
        /\ nv' = answer.nv
        /\ last_write' = IF answer.rc = TPM_RC_SUCCESS THEN NoWrite ELSE last_write
        /\ l' = [l EXCEPT !.rc = answer.rc]
        /\ pc' = "write_flush"
    /\ UNCHANGED <<tss_context, call, ret, sessions, nv_buffer_max, objects, nv_before, files_before, files>>

write_flush ==
    /\ pc = "write_flush"
    /\ NvFlushAndReturn("tpm2_nv_write", <<>>, 0)
    /\ last_write' = IF ret'.rc = TPM_RC_SUCCESS
                     THEN [valid |-> TRUE, data |-> call.data, pwd |-> call.pwd]
                     ELSE last_write
    /\ UNCHANGED <<tss_context, call, nv, nv_buffer_max, objects, nv_before, files_before, files>>

(***************************************************************************)
(* tpm2_nv_read                                                            *)
(***************************************************************************)
nv_read_too_large_for_device(data_size, buffer_max, out_length) ==
    data_size > buffer_max

\* the two capacity checks before the session is opened
nv_read_too_large(data_size, buffer_max, out_length) ==
    data_size > buffer_max \/ data_size > out_length

nv_read_after_exec_err(rc) == IF rc # TPM_RC_SUCCESS THEN "err" ELSE "copy"

\* where the call goes after NV_Read: a failed command skips the copy
nv_read_after_exec(rc) == IF rc # TPM_RC_SUCCESS THEN "flush" ELSE "copy"

tpm2_nv_read ==
    /\ pc = "idle"
    /\ \E nv_index_handle \in {NvIndexHandle, BadNvHandle},
          nv_pwd \in {NULL, ShortPwd},
          out_length \in 1..MaxNvSize :
        /\ call' = [NoCall EXCEPT !.op = "tpm2_nv_read",
                                  !.handle = nv_index_handle,
                                  !.pwd = nv_pwd, !.size = out_length]
        /\ log' = <<>>
        /\ IF ~tss_context
           THEN Return("tpm2_nv_read", "TSS_RC_NULL_PARAMETER", <<>>, out_length)
           ELSE IF ~nv_handle_ok(nv_index_handle)
           THEN Return("tpm2_nv_read", "TSS_RC_BAD_HANDLE_NUMBER", <<>>, out_length)
           ELSE /\ pc' = "read_data_size"
                /\ ret' = NoRet
                /\ l' = [NoLocals EXCEPT !.out_length = out_length]
    /\ UNCHANGED <<tss_context, dev, nv_before, files_before, last_write, files>>

read_data_size ==
    /\ pc = "read_data_size"
    /\ \E answer \in NV_ReadPublicAnswers :
        /\ log' = Append(log, Cmd("TPM_CC_NV_ReadPublic", call.handle, <<>>,
                                   answer.rc))
        /\ l' = [l EXCEPT !.data_size = tpm2_nv_get_data_size(answer)]
        /\ pc' = "read_max_buffer"
    /\ UNCHANGED <<tss_context, call, ret, dev, nv_before, files_before, last_write, files>>

read_max_buffer ==
    /\ pc = "read_max_buffer"
    /\ \E answer \in GetCapabilityAnswers :
        LET buffer_max == tpm2_nv_get_max_buffer_size(answer) IN
        /\ log' = Append(log, CmdOut("TPM_CC_GetCapability", TPM_RH_NULL,
                                      "TPM_PT_NV_BUFFER_MAX", answer.rc,
                                      [count |-> answer.count,
                                       value |-> answer.value]))
        /\ IF nv_read_too_large(l.data_size, buffer_max, call.size)
           THEN Return("tpm2_nv_read",
                       nv_result("TSS_RC_INSUFFICIENT_BUFFER", l.rc_flush),
                       <<>>, l.out_length)
           ELSE /\ pc' = "read_start"
                /\ ret' = NoRet
                /\ l' = [l EXCEPT !.buffer_max = buffer_max,
                                  !.in = nv_read_in(l.data_size)]
    /\ UNCHANGED <<tss_context, call, dev, nv_before, files_before, last_write, files>>

read_start ==
    /\ pc = "read_start"
    /\ NvStartSession("tpm2_nv_read", call.handle, "read_exec")
    /\ UNCHANGED <<tss_context, call, nv, nv_buffer_max, objects, nv_before, files_before, last_write, files>>

read_exec ==
    /\ pc = "read_exec"
    /\ \E answer \in NV_ReadAnswers(call.pwd, l.in.size, l.in.offset) :
        LET next == nv_read_after_exec(answer.rc) IN
        /\ log' = Append(log, Cmd("TPM_CC_NV_Read", call.handle, l.in, answer.rc))
        /\ IF next = "err"
           THEN Return("tpm2_nv_read", nv_result(answer.rc, l.rc_flush), <<>>,
                       l.out_length)
           ELSE /\ pc' = "read_flush"
                /\ ret' = NoRet
                /\ l' = IF next = "copy"
                        THEN [l EXCEPT !.rc = answer.rc,
                                       !.out_buffer = answer.data,
                                       !.out_length = Len(answer.data)]
                        ELSE [l EXCEPT !.rc = answer.rc]
    /\ UNCHANGED <<tss_context, call, dev, nv_before, files_before, last_write, files>>

read_flush ==
    /\ pc = "read_flush"
    /\ NvFlushAndReturn("tpm2_nv_read", l.out_buffer, l.out_length)
    /\ UNCHANGED <<tss_context, call, nv, nv_buffer_max, objects, nv_before, files_before, last_write, files>>

Next ==
    \/ tss2_init
    \/ tss2_destroy
    \/ CallerContinues
    \/ tpm2_getrandom_new
    \/ getrandom_start
    \/ getrandom_loop
    \/ getrandom_flush
    \/ tpm2_clear
    \/ tpm2_nv_definespace
    \/ definespace_start
    \/ definespace_exec
    \/ definespace_flush
    \/ tpm2_nv_write
    \/ write_max_buffer
    \/ write_start
    \/ write_exec
    \/ write_flush
    \/ tpm2_nv_read
    \/ read_data_size
    \/ read_max_buffer
    \/ read_start
    \/ read_exec
    \/ read_flush

Spec == Init /\ [][Next]_vars

(***************************************************************************)
(* Hex strings are sequences of characters.                                *)
(***************************************************************************)
MaxHexLen == 3      \* longest hex string given as qualifying data

HexLower == <<"0", "1", "2", "3", "4", "5", "6", "7", "8", "9",
              "a", "b", "c", "d", "e", "f">>
HexUpper == <<"0", "1", "2", "3", "4", "5", "6", "7", "8", "9",
              "A", "B", "C", "D", "E", "F">>

\* the characters that occur in the hex strings given to the layer: digits,
\* lower and upper case, and a character that is no hex digit
HexChars == {"0", "a", "F", "g"}

IsHexDigit(c) == \E i \in 1..16 : HexLower[i] = c \/ HexUpper[i] = c

DigitValue(c) == (CHOOSE i \in 1..16 : HexLower[i] = c \/ HexUpper[i] = c) - 1

ByteToHexUpper(b) == <<HexUpper[(b \div 16) + 1], HexUpper[(b % 16) + 1]>>

\* snprintf(hex + i*2, 3, "%.2x", bin[i]) for one byte
ByteToHex(b) == <<HexLower[(b \div 16) + 1], HexLower[(b % 16) + 1]>>

RECURSIVE BinToHexLoop(_, _, _)
BinToHexLoop(bin, i, length) ==
    IF i >= length THEN <<>>
    ELSE ByteToHex(bin[i + 1]) \o BinToHexLoop(bin, i + 1, length)

\* convert_bin_to_hex_new(bin, length): the first length bytes at bin
convert_bin_to_hex_new(bin, length) == BinToHexLoop(bin, 0, length)

\* sscanf(&hex_str[i], "%1hhx", &byte): converted 1 item, and the byte
Scan1(hex_str, i) ==
    IF i < Len(hex_str) /\ IsHexDigit(hex_str[i + 1])
    THEN [n |-> 1, byte |-> DigitValue(hex_str[i + 1])]
    ELSE [n |-> 0, byte |-> 0]

\* sscanf(&hex_str[i], "%2hhx", &byte): up to two digits; the conversion stops
\* at the first character that is no hex digit
Scan2(hex_str, i) ==
    IF ~(i < Len(hex_str) /\ IsHexDigit(hex_str[i + 1]))
    THEN [n |-> 0, byte |-> 0]
    ELSE IF i + 1 < Len(hex_str) /\ IsHexDigit(hex_str[i + 2])
    THEN [n |-> 1, byte |-> 16 * DigitValue(hex_str[i + 1]) + DigitValue(hex_str[i + 2])]
    ELSE [n |-> 1, byte |-> DigitValue(hex_str[i + 1])]

HexToBinScanPairs(hex_str, j) == Scan2(hex_str, 2 * j)

\* the sscanf that fills bin[j]: "%1hhx" at index 0 for the leading digit of
\* an odd-length string, "%2hhx" at the following pairs
HexToBinScan(hex_str, j) ==
    IF Len(hex_str) % 2 = 1
    THEN IF j = 0 THEN Scan1(hex_str, 0) ELSE Scan2(hex_str, 2 * j - 1)
    ELSE Scan2(hex_str, 2 * j)

\* convert_hex_to_bin_new(hex_str, &out_length): ok is FALSE when it returns
\* NULL, which it does at the first sscanf that converts nothing; out_length
\* is set in either case
convert_hex_to_bin_new(hex_str) ==
    LET len == Len(hex_str)
        out_length == (len + 1) \div 2
    IN  [ok |-> \A j \in 0..(out_length - 1) : HexToBinScan(hex_str, j).n = 1,
         bin |-> [k \in 1..out_length |-> HexToBinScan(hex_str, k - 1).byte],
         out_length |-> out_length]

(***************************************************************************)
(* The two conversions, called on their own.                               *)
(***************************************************************************)
MaxBinLen == 2      \* longest byte sequence given to convert_bin_to_hex_new

\* the bytes that occur in them: both nibbles below and above 10
BinBytes == {0, 9, 10, 171, 188, 255}

\* the characters of the strings given to convert_hex_to_bin_new
HexStrChars == {"0", "9", "a", "b", "c", "F", "g"}

call_convert_bin_to_hex_new ==
    /\ pc = "idle"
    /\ \E bin \in SeqsUpTo(BinBytes, MaxBinLen) :
        /\ call' = [NoCall EXCEPT !.op = "convert_bin_to_hex_new",
                                  !.data = bin, !.size = Len(bin)]
        /\ log' = <<>>
        /\ Return("convert_bin_to_hex_new", "NONNULL",
                  convert_bin_to_hex_new(bin, Len(bin)), 0)
    /\ UNCHANGED <<tss_context, dev, nv_before, files_before, last_write, files>>

call_convert_hex_to_bin_new ==
    /\ pc = "idle"
    /\ \E hex_str \in SeqsUpTo(HexStrChars, MaxHexLen) :
        LET conv == convert_hex_to_bin_new(hex_str) IN
        /\ call' = [NoCall EXCEPT !.op = "convert_hex_to_bin_new",
                                  !.qd = hex_str]
        /\ log' = <<>>
        /\ IF conv.ok
           THEN Return("convert_hex_to_bin_new", "NONNULL", conv.bin,
                       conv.out_length)
           ELSE Return("convert_hex_to_bin_new", "NULL", <<>>, conv.out_length)
    /\ UNCHANGED <<tss_context, dev, nv_before, files_before, last_write, files>>

HexNext ==
    \/ CallerContinues
    \/ call_convert_bin_to_hex_new
    \/ call_convert_hex_to_bin_new

SpecHex == Init /\ [][HexNext]_vars

(***************************************************************************)
(* Build configuration.                                                    *)
(***************************************************************************)
TPM2D_HASH_ALGORITHM == "TPM_ALG_SHA256"

\* TPM2D_ASYM_ALGORITHM is fixed per build; a call is modelled for each build
AsymAlgorithms == {"TPM_ALG_RSA", "TPM_ALG_ECC"}

halg_id_to_string_new(alg_id) ==
    IF alg_id \in {"TPM_ALG_SHA1", "TPM_ALG_SHA256", "TPM_ALG_SHA384"}
    THEN alg_id ELSE "NONE"

(***************************************************************************)
(* tpm2_quote_new                                                          *)
(***************************************************************************)
MaxPcrIndex == 23
SizeofTPMT_HA == 66

LongHex == [i \in 1..(2 * SizeofTPMT_HA + 2) |-> "0"]

BitAdd(a, bit) == a + bit

\* a |= bit, for a byte a and a power of two bit
BitOr(a, bit) == IF (a \div bit) % 2 = 1 THEN a ELSE a + bit

RECURSIVE QuoteSelectLoop(_, _, _)
QuoteSelectLoop(i, pcr_indices, pcrSelect) ==
    IF i >= pcr_indices THEN pcrSelect
    ELSE QuoteSelectLoop(i + 1, pcr_indices,
            [pcrSelect EXCEPT ![(pcr_indices \div 8) + 1] =
                BitOr(@, 2 ^ (pcr_indices % 8))])

\* the PCR selection bitmap the quote sends, bytes pcrSelect[0..2]
quote_pcr_select(pcr_indices) == QuoteSelectLoop(0, pcr_indices, <<0, 0, 0>>)

quote_scheme(asym) ==
    IF asym = "TPM_ALG_RSA"
    THEN [scheme |-> "TPM_ALG_RSASSA", hashAlg |-> TPM2D_HASH_ALGORITHM]
    ELSE [scheme |-> "TPM_ALG_ECDSA", hashAlg |-> TPM2D_HASH_ALGORITHM]

\* TSS_TPM2B_Create(target, buffer, size, targetSize)
TPM2B_CreateRc(size, target_size) ==
    IF size > target_size THEN "TSS_RC_INSUFFICIENT_BUFFER" ELSE TPM_RC_SUCCESS

\* TSS_TPM2B_Compare(expect, actual): same size and same bytes
TPM2B_Compare(expect, actual) == Len(expect) = Len(actual) /\ expect = actual

\* The attestation structure as the device marshals it: the magic value, the
\* size of the extra data, the extra data.
TPM_GENERATED == 255

Attest(extraData) == <<TPM_GENERATED, Len(extraData)>> \o extraData

TPMS_ATTEST_Unmarshal(buffer) ==
    IF Len(buffer) < 2 THEN [rc |-> "TPM_RC_INSUFFICIENT", extraData |-> <<>>]
    ELSE IF buffer[1] # TPM_GENERATED THEN [rc |-> "TPM_RC_VALUE", extraData |-> <<>>]
    ELSE IF buffer[2] > Len(buffer) - 2
         THEN [rc |-> "TPM_RC_INSUFFICIENT", extraData |-> <<>>]
    ELSE [rc |-> TPM_RC_SUCCESS, extraData |-> SubSeq(buffer, 3, 2 + buffer[2])]

\* nonces a device or a relay may answer with instead of the one sent
NoncesNear(sent) ==
    {sent, <<>>, <<10>>, sent \o <<0>>}
    \cup (IF sent = <<>> THEN {}
          ELSE {SubSeq(sent, 1, Len(sent) - 1),
                [sent EXCEPT ![Len(sent)] = (@ + 1) % 256]})

\* the marshaled signature of a quote
QuoteSignature == <<171>>

\* bytes found in memory behind a heap buffer
BeyondBytes == {0, 255}

QuoteAnswers(qualifyingData) ==
    {[rc |-> TPM_RC_SUCCESS, quoted |-> q, signature |-> QuoteSignature] :
        q \in {Attest(e) : e \in NoncesNear(qualifyingData)}
              \cup {<<0, 0>>, <<TPM_GENERATED>>}}
    \cup {[rc |-> e, quoted |-> <<>>, signature |-> <<>>] : e \in DeviceFailures}

\* the checks after the Quote command: rc, parse, nonce
quote_nonce_unchecked(sent, extraData) == TRUE

quote_nonce_ok(sent, extraData) == TPM2B_Compare(sent, extraData)

quote_accepts(rc, quoted, sent) ==
    /\ rc = TPM_RC_SUCCESS
    /\ TPMS_ATTEST_Unmarshal(quoted).rc = TPM_RC_SUCCESS
    /\ quote_nonce_ok(sent, TPMS_ATTEST_Unmarshal(quoted).extraData)

\* tpm2d_marshal_structure_new: bin_stream holds written_size bytes, beyond
\* are the bytes that follow it in memory
tpm2d_marshal_structure_new(marshal_rc, bin_stream, beyond) ==
    IF marshal_rc # TPM_RC_SUCCESS THEN NULL_STR
    ELSE convert_bin_to_hex_new(bin_stream \o beyond, Len(bin_stream) * 2 + 1)

tpm2_quote_new ==
    /\ pc = "idle"
    /\ \E pcr_indices \in 0..(MaxPcrIndex + 1),
          asym \in AsymAlgorithms,
          qualifying_data \in {NULL_STR} \cup SeqsUpTo(HexChars, MaxHexLen) \cup {LongHex} :
        LET conv == IF qualifying_data = NULL_STR
                    THEN [ok |-> TRUE, bin |-> <<>>, out_length |-> 0]
                    ELSE convert_hex_to_bin_new(qualifying_data)
            rc == TPM2B_CreateRc(conv.out_length, SizeofTPMT_HA)
        IN
        /\ call' = [NoCall EXCEPT !.op = "tpm2_quote_new", !.size = pcr_indices,
                                  !.qd = qualifying_data, !.asym = asym]
        /\ log' = <<>>
        /\ IF ~tss_context \/ pcr_indices > MaxPcrIndex \/ ~conv.ok
              \/ rc # TPM_RC_SUCCESS
           THEN Return("tpm2_quote_new", "NULL", <<>>, 0)
           ELSE /\ pc' = "quote_exec"
                /\ ret' = NoRet
                /\ l' = [NoLocals EXCEPT !.in =
                           [pcrSelect |-> quote_pcr_select(pcr_indices),
                            sizeofSelect |-> 3,
                            hash |-> TPM2D_HASH_ALGORITHM,
                            inScheme |-> quote_scheme(asym),
                            qualifyingData |-> conv.bin]]
    /\ UNCHANGED <<tss_context, dev, nv_before, files_before, last_write, files>>

quote_exec ==
    /\ pc = "quote_exec"
    /\ \E answer \in QuoteAnswers(l.in.qualifyingData) :
        /\ log' = Append(log, CmdOut("TPM_CC_Quote", NoHandle, l.in, answer.rc,
                                      [quoted |-> answer.quoted,
                                       signature |-> answer.signature]))
        /\ IF ~quote_accepts(answer.rc, answer.quoted, l.in.qualifyingData)
           THEN Return("tpm2_quote_new", "NULL", <<>>, 0)
           ELSE \E marshal_rc \in {TPM_RC_SUCCESS, "TSS_RC_OUT_OF_MEMORY"},
                   beyond \in [1..(Len(answer.signature) + 1) -> BeyondBytes] :
                (marshal_rc # TPM_RC_SUCCESS => \A k \in DOMAIN beyond : beyond[k] = 0)
                /\ Return("tpm2_quote_new", "NONNULL",
                          [halg_str |-> halg_id_to_string_new(l.in.hash),
                           quoted_str |-> convert_bin_to_hex_new(answer.quoted,
                                                                 Len(answer.quoted)),
                           signature_str |->
                               tpm2d_marshal_structure_new(marshal_rc,
                                                           answer.signature, beyond)],
                          0)
    /\ UNCHANGED <<tss_context, call, dev, nv_before, files_before, last_write, files>>

QuoteNext ==
    \/ tss2_init
    \/ tss2_destroy
    \/ CallerContinues
    \/ tpm2_quote_new
    \/ quote_exec

SpecQuote == Init /\ [][QuoteNext]_vars

(***************************************************************************)
(* Key templates.  An attribute word is the set of the attributes set.    *)
(***************************************************************************)
MaxObjects == 2     \* transient object slots of the device

\* 0x80000000 + i as a signed 32 bit number
TransientHandles == {(-2147483647) + i : i \in 0..(MaxObjects - 1)}

KeyTypes == {"TPM2D_KEY_TYPE_STORAGE_U", "TPM2D_KEY_TYPE_STORAGE_R",
             "TPM2D_KEY_TYPE_SIGNING_U", "TPM2D_KEY_TYPE_SIGNING_R"}

\* a value of tpm2d_key_type_t that is none of the four
OtherKeyType == "TPM2D_KEY_TYPE_OTHER"

TPM2D_CURVE_ID == "TPM2D_CURVE_ID"

\* a field the code leaves unassigned
Unset == "unset"

tpm2_fill_rsa_details(out_public_area, key_type) ==
    LET p == [keyBits |-> 2048, exponent |-> 0, symmetric |-> Unset,
              sym_keyBits |-> 0, sym_mode |-> Unset, scheme |-> Unset,
              scheme_hashAlg |-> Unset]
    IN
    IF key_type \in {"TPM2D_KEY_TYPE_STORAGE_U", "TPM2D_KEY_TYPE_SIGNING_U"}
    THEN [rc |-> TPM_RC_SUCCESS,
          publicArea |-> [out_public_area EXCEPT !.parameters =
              [p EXCEPT !.symmetric = "TPM_ALG_NULL", !.scheme = "TPM_ALG_NULL"]]]
    ELSE IF key_type = "TPM2D_KEY_TYPE_STORAGE_R"
    THEN [rc |-> TPM_RC_SUCCESS,
          publicArea |-> [out_public_area EXCEPT !.parameters =
              [p EXCEPT !.symmetric = "TPM_ALG_AES", !.sym_keyBits = 128,
                        !.sym_mode = "TPM_ALG_CFB", !.scheme = "TPM_ALG_NULL"]]]
    ELSE IF key_type = "TPM2D_KEY_TYPE_SIGNING_R"
    THEN [rc |-> TPM_RC_SUCCESS,
          publicArea |-> [out_public_area EXCEPT !.parameters =
              [p EXCEPT !.symmetric = "TPM_ALG_NULL", !.scheme = "TPM_ALG_RSASSA",
                        !.scheme_hashAlg = TPM2D_HASH_ALGORITHM]]]
    ELSE [rc |-> "TPM_RC_VALUE",
          publicArea |-> [out_public_area EXCEPT !.parameters = p]]

tpm2_fill_ecc_details(out_public_area, key_type) ==
    LET p == [curveID |-> Unset, symmetric |-> Unset, sym_keyBits |-> 0,
              sym_mode |-> Unset, scheme |-> Unset, scheme_hashAlg |-> Unset,
              kdf |-> Unset, kdf_hashAlg |-> Unset]
    IN
    IF key_type = "TPM2D_KEY_TYPE_SIGNING_U"
    THEN [rc |-> TPM_RC_SUCCESS,
          publicArea |-> [out_public_area EXCEPT !.parameters =
              [p EXCEPT !.symmetric = "TPM_ALG_NULL", !.scheme = "TPM_ALG_NULL",
                        !.curveID = TPM2D_CURVE_ID, !.kdf = "TPM_ALG_NULL"]]]
    ELSE IF key_type = "TPM2D_KEY_TYPE_SIGNING_R"
    THEN [rc |-> TPM_RC_SUCCESS,
          publicArea |-> [out_public_area EXCEPT !.parameters =
              [p EXCEPT !.symmetric = "TPM_ALG_NULL", !.scheme = "TPM_ALG_ECDSA",
                        !.scheme_hashAlg = TPM2D_HASH_ALGORITHM,
                        !.kdf_hashAlg = TPM2D_HASH_ALGORITHM,
                        !.curveID = TPM2D_CURVE_ID, !.kdf = "TPM_ALG_NULL"]]]
    ELSE IF key_type \in {"TPM2D_KEY_TYPE_STORAGE_U", "TPM2D_KEY_TYPE_STORAGE_R"}
    THEN [rc |-> TPM_RC_SUCCESS,
          publicArea |-> [out_public_area EXCEPT !.parameters =
              [p EXCEPT !.symmetric = "TPM_ALG_AES", !.sym_keyBits = 128,
                        !.sym_mode = "TPM_ALG_CFB", !.scheme = "TPM_ALG_NULL",
                        !.scheme_hashAlg = "0", !.curveID = TPM2D_CURVE_ID,
                        !.kdf = "TPM_ALG_NULL", !.kdf_hashAlg = "0"]]]
    ELSE [rc |-> "TPM_RC_VALUE",
          publicArea |-> [out_public_area EXCEPT !.parameters = p]]

key_type_attrs_kept(attrs, key_type) == attrs

\* the switch on key_type of tpm2_public_area_helper, on the attribute word
key_type_attrs(attrs, key_type) ==
    IF key_type = "TPM2D_KEY_TYPE_STORAGE_U"
    THEN ((attrs \ {"TPMA_OBJECT_SIGN"}) \cup {"TPMA_OBJECT_DECRYPT"})
         \ {"TPMA_OBJECT_RESTRICTED"}
    ELSE IF key_type = "TPM2D_KEY_TYPE_STORAGE_R"
    THEN ((attrs \ {"TPMA_OBJECT_SIGN"}) \cup {"TPMA_OBJECT_DECRYPT"})
         \cup {"TPMA_OBJECT_RESTRICTED"}
    ELSE IF key_type = "TPM2D_KEY_TYPE_SIGNING_U"
    THEN ((attrs \cup {"TPMA_OBJECT_SIGN"}) \ {"TPMA_OBJECT_DECRYPT"})
         \ {"TPMA_OBJECT_RESTRICTED"}
    ELSE IF key_type = "TPM2D_KEY_TYPE_SIGNING_R"
    THEN ((attrs \cup {"TPMA_OBJECT_SIGN"}) \ {"TPMA_OBJECT_DECRYPT"})
         \cup {"TPMA_OBJECT_RESTRICTED"}
    ELSE attrs

tpm2_public_area_helper_any_class(object_attrs, key_type, asym) ==
    [rc |-> TPM_RC_SUCCESS,
     publicArea |-> [type |-> asym, nameAlg |-> TPM2D_HASH_ALGORITHM,
                     objectAttributes |-> key_type_attrs(object_attrs, key_type),
                     authPolicy |-> <<>>, unique |-> <<>>,
                     parameters |-> [symmetric |-> "TPM_ALG_NULL"]]]

tpm2_public_area_helper(object_attrs, key_type, asym) ==
    LET area == [type |-> asym,
                 nameAlg |-> TPM2D_HASH_ALGORITHM,
                 objectAttributes |->
                     key_type_attrs(
                         ((object_attrs \cup {"TPMA_OBJECT_SENSITIVEDATAORIGIN"})
                             \cup {"TPMA_OBJECT_USERWITHAUTH"})
                             \ {"TPMA_OBJECT_ADMINWITHPOLICY"}, key_type),
                 authPolicy |-> <<>>,
                 unique |-> <<>>,
                 parameters |-> <<>>]
    IN  IF key_type \notin KeyTypes
        THEN [rc |-> "TPM_RC_VALUE", publicArea |-> area]
        ELSE IF asym = "TPM_ALG_RSA" THEN tpm2_fill_rsa_details(area, key_type)
        ELSE tpm2_fill_ecc_details(area, key_type)

(***************************************************************************)
(* tpm2_createprimary_asym                                                 *)
(***************************************************************************)
\* the attribute word tpm2_createprimary_asym hands to the helper
createprimary_object_attrs ==
    ((((((({} \cup {"TPMA_OBJECT_NODA"})
        \cup {"TPMA_OBJECT_SENSITIVEDATAORIGIN"})
        \cup {"TPMA_OBJECT_USERWITHAUTH"})
        \ {"TPMA_OBJECT_ADMINWITHPOLICY"})
        \cup {"TPMA_OBJECT_RESTRICTED"})
        \cup {"TPMA_OBJECT_DECRYPT"})
        \ {"TPMA_OBJECT_SIGN"})
        \cup {"TPMA_OBJECT_FIXEDTPM"} \cup {"TPMA_OBJECT_FIXEDPARENT"}

PubKeyFile == <<"p", "u", "b">>

\* the device creates the object in its lowest free slot
CreatePrimaryAnswers ==
    (IF TransientHandles \ objects = {}
     THEN {[rc |-> "TPM_RC_OBJECT_MEMORY", objectHandle |-> NoHandle]}
     ELSE {[rc |-> TPM_RC_SUCCESS,
            objectHandle |-> CHOOSE h \in TransientHandles \ objects :
                                \A g \in TransientHandles \ objects : h <= g]})
    \cup {[rc |-> e, objectHandle |-> NoHandle] : e \in DeviceFailures}

\* TSS_File_WriteStructure: written, not opened, or opened and not written
FileWriteAnswers == {TPM_RC_SUCCESS, "TSS_RC_FILE_OPEN", "TSS_RC_FILE_WRITE"}

FilesAfterWrite(store, name, rc, content) ==
    IF rc = "TSS_RC_FILE_OPEN" THEN store
    ELSE {f \in store : f.name # name}
         \cup {[name |-> name, complete |-> rc = TPM_RC_SUCCESS,
                content |-> IF rc = TPM_RC_SUCCESS THEN content ELSE <<>>]}

key_after_exec_save(rc) == "save"

\* after the device command of a key operation: a failure code is returned at
\* once, before any blob or the output handle is written
key_after_exec(rc) == IF rc # TPM_RC_SUCCESS THEN "return" ELSE "save"

tpm2_createprimary_asym ==
    /\ pc = "idle"
    /\ \E hierachy \in {TPM_RH_OWNER, TPM_RH_PLATFORM},
          key_type \in KeyTypes \cup {OtherKeyType},
          hierachy_pwd \in {NULL, ShortPwd},
          key_pwd \in {NULL, ShortPwd, LongPwd},
          file_name_pub_key \in {NULL_STR, PubKeyFile},
          asym \in AsymAlgorithms :
        LET rc_copy == IF key_pwd = NULL THEN TPM_RC_SUCCESS
                       ELSE StringCopyRc(key_pwd, SizeofTPMU_HA)
            helper == tpm2_public_area_helper(createprimary_object_attrs,
                                              key_type, asym)
        IN
        /\ call' = [NoCall EXCEPT !.op = "tpm2_createprimary_asym",
                                  !.hierarchy = hierachy, !.key_type = key_type,
                                  !.hpwd = hierachy_pwd, !.pwd = key_pwd,
                                  !.file = file_name_pub_key, !.asym = asym]
        /\ log' = <<>>
        /\ IF ~tss_context
           THEN Return("tpm2_createprimary_asym", "TSS_RC_NULL_PARAMETER",
                       [out_handle |-> NoHandle], 0)
           ELSE IF rc_copy # TPM_RC_SUCCESS
           THEN Return("tpm2_createprimary_asym", rc_copy,
                       [out_handle |-> NoHandle], 0)
           ELSE IF helper.rc # TPM_RC_SUCCESS
           THEN Return("tpm2_createprimary_asym", helper.rc,
                       [out_handle |-> NoHandle], 0)
           ELSE /\ pc' = "createprimary_exec"
                /\ ret' = NoRet
                /\ l' = [NoLocals EXCEPT !.in =
                           [primaryHandle |-> hierachy,
                            userAuth |-> AuthOf(key_pwd),
                            data |-> <<>>,
                            inPublic |-> helper.publicArea,
                            outsideInfo |-> <<>>,
                            creationPCR |-> <<>>]]
    /\ UNCHANGED <<tss_context, dev, nv_before, files_before, last_write, files>>

createprimary_exec ==
    /\ pc = "createprimary_exec"
    /\ \E answer \in CreatePrimaryAnswers :
        /\ log' = Append(log, CmdOut("TPM_CC_CreatePrimary", l.in.primaryHandle,
                                      l.in, answer.rc,
                                      [objectHandle |-> answer.objectHandle]))
        /\ IF key_after_exec(answer.rc) = "return"
           THEN /\ Return("tpm2_createprimary_asym", answer.rc,
                          [out_handle |-> NoHandle], 0)
                /\ UNCHANGED <<objects, files>>
           ELSE /\ objects' = objects \cup {answer.objectHandle}
                /\ IF call.file = NULL_STR
                   THEN /\ Return("tpm2_createprimary_asym", TPM_RC_SUCCESS,
                                  [out_handle |-> answer.objectHandle], 0)
                        /\ UNCHANGED files
                   ELSE \E rc \in FileWriteAnswers :
                        /\ files' = FilesAfterWrite(files, call.file, rc,
                                                     "TPM2B_PUBLIC")
                        /\ Return("tpm2_createprimary_asym", rc,
                                  [out_handle |-> answer.objectHandle], 0)
    /\ UNCHANGED <<tss_context, call, sessions, nv, nv_buffer_max, nv_before, files_before,
                   last_write>>

(***************************************************************************)
(* tpm2_create_asym                                                        *)
(***************************************************************************)
\* the attribute bits a caller passes in object_vals
ObjectVals == SUBSET {"TPMA_OBJECT_SIGN", "TPMA_OBJECT_DECRYPT",
                      "TPMA_OBJECT_RESTRICTED"}

PrivKeyFile == <<"p", "r", "i", "v">>

\* Create and Load need their parent loaded
CreateAnswers(parentHandle) ==
    (IF parentHandle \in objects THEN {TPM_RC_SUCCESS} ELSE {"TPM_RC_HANDLE"})
    \cup DeviceFailures

tpm2_create_asym ==
    /\ pc = "idle"
    /\ \E parent_handle \in TransientHandles,
          key_type \in KeyTypes \cup {OtherKeyType},
          object_vals \in ObjectVals,
          key_pwd \in {NULL, LongPwd},
          file_name_priv_key \in {NULL_STR, PrivKeyFile},
          file_name_pub_key \in {NULL_STR, PubKeyFile},
          asym \in AsymAlgorithms :
        LET rc_copy == IF key_pwd = NULL THEN TPM_RC_SUCCESS
                       ELSE StringCopyRc(key_pwd, SizeofTPMU_HA)
            helper == tpm2_public_area_helper(object_vals, key_type, asym)
        IN
        /\ call' = [NoCall EXCEPT !.op = "tpm2_create_asym",
                                  !.handle = parent_handle, !.key_type = key_type,
                                  !.object_vals = object_vals, !.pwd = key_pwd,
                                  !.file_priv = file_name_priv_key,
                                  !.file = file_name_pub_key, !.asym = asym]
        /\ log' = <<>>
        /\ IF ~tss_context
           THEN Return("tpm2_create_asym", "TSS_RC_NULL_PARAMETER", <<>>, 0)
           ELSE IF rc_copy # TPM_RC_SUCCESS
           THEN Return("tpm2_create_asym", rc_copy, <<>>, 0)
           ELSE IF helper.rc # TPM_RC_SUCCESS
           THEN Return("tpm2_create_asym", helper.rc, <<>>, 0)
           ELSE /\ pc' = "create_exec"
                /\ ret' = NoRet
                /\ l' = [NoLocals EXCEPT !.in =
                           [parentHandle |-> parent_handle,
                            userAuth |-> AuthOf(key_pwd),
                            data |-> <<>>,
                            inPublic |-> helper.publicArea,
                            outsideInfo |-> <<>>,
                            creationPCR |-> <<>>]]
    /\ UNCHANGED <<tss_context, dev, nv_before, files_before, last_write, files>>

create_exec ==
    /\ pc = "create_exec"
    /\ \E rc \in CreateAnswers(l.in.parentHandle) :
        /\ log' = Append(log, Cmd("TPM_CC_Create", l.in.parentHandle, l.in, rc))
        /\ IF key_after_exec(rc) = "return"
           THEN /\ Return("tpm2_create_asym", rc, <<>>, 0)
                /\ UNCHANGED files
           ELSE \E rc_priv \in IF call.file_priv = NULL_STR THEN {TPM_RC_SUCCESS}
                               ELSE FileWriteAnswers :
                LET saved == IF call.file_priv = NULL_STR THEN files
                             ELSE FilesAfterWrite(files, call.file_priv, rc_priv,
                                                  "TPM2B_PRIVATE")
                IN
                IF rc_priv # TPM_RC_SUCCESS
                THEN /\ files' = saved
                     /\ Return("tpm2_create_asym", rc_priv, <<>>, 0)
                ELSE IF call.file = NULL_STR
                THEN /\ files' = saved
                     /\ Return("tpm2_create_asym", rc, <<>>, 0)
                ELSE \E rc_pub \in FileWriteAnswers :
                     /\ files' = FilesAfterWrite(saved, call.file, rc_pub,
                                                 "TPM2B_PUBLIC")
                     /\ Return("tpm2_create_asym", rc_pub, <<>>, 0)
    /\ UNCHANGED <<tss_context, call, dev, nv_before, files_before, last_write>>

(***************************************************************************)
(* tpm2_load                                                               *)
(***************************************************************************)
\* TSS_File_ReadStructure: the file must be there, whole, and of the structure
\* asked for
FileReadAnswers(name, structure) ==
    IF \A f \in files : f.name # name THEN {"TSS_RC_FILE_OPEN"}
    ELSE IF \E f \in files : f.name = name /\ f.complete /\ f.content = structure
    THEN {TPM_RC_SUCCESS, "TSS_RC_FILE_READ"}
    ELSE {"TPM_RC_INSUFFICIENT"}

LoadAnswers(parentHandle) ==
    (IF parentHandle \notin objects
     THEN {[rc |-> "TPM_RC_HANDLE", objectHandle |-> NoHandle]}
     ELSE IF TransientHandles \ objects = {}
     THEN {[rc |-> "TPM_RC_OBJECT_MEMORY", objectHandle |-> NoHandle]}
     ELSE {[rc |-> TPM_RC_SUCCESS,
            objectHandle |-> CHOOSE h \in TransientHandles \ objects :
                                \A g \in TransientHandles \ objects : h <= g]})
    \cup {[rc |-> e, objectHandle |-> NoHandle] : e \in DeviceFailures}

tpm2_load ==
    /\ pc = "idle"
    /\ \E parent_handle \in TransientHandles,
          file_name_priv_key \in {PrivKeyFile, PubKeyFile},
          file_name_pub_key \in {PubKeyFile} :
        /\ call' = [NoCall EXCEPT !.op = "tpm2_load", !.handle = parent_handle,
                                  !.file_priv = file_name_priv_key,
                                  !.file = file_name_pub_key]
        /\ log' = <<>>
        /\ IF ~tss_context
           THEN Return("tpm2_load", "TSS_RC_NULL_PARAMETER",
                       [out_handle |-> NoHandle], 0)
           ELSE \E rc_priv \in FileReadAnswers(file_name_priv_key, "TPM2B_PRIVATE") :
                IF rc_priv # TPM_RC_SUCCESS
                THEN Return("tpm2_load", rc_priv, [out_handle |-> NoHandle], 0)
                ELSE \E rc_pub \in FileReadAnswers(file_name_pub_key, "TPM2B_PUBLIC") :
                     IF rc_pub # TPM_RC_SUCCESS
                     THEN Return("tpm2_load", rc_pub, [out_handle |-> NoHandle], 0)
                     ELSE /\ pc' = "load_exec"
                          /\ ret' = NoRet
                          /\ l' = [NoLocals EXCEPT !.in =
                                     [parentHandle |-> parent_handle,
                                      inPrivate |-> "TPM2B_PRIVATE",
                                      inPublic |-> "TPM2B_PUBLIC"]]
    /\ UNCHANGED <<tss_context, dev, nv_before, files_before, last_write, files>>

load_exec ==
    /\ pc = "load_exec"
    /\ \E answer \in LoadAnswers(l.in.parentHandle) :
        /\ log' = Append(log, CmdOut("TPM_CC_Load", l.in.parentHandle, l.in,
                                      answer.rc,
                                      [objectHandle |-> answer.objectHandle]))
        /\ IF key_after_exec(answer.rc) = "return"
           THEN /\ Return("tpm2_load", answer.rc, [out_handle |-> NoHandle], 0)
                /\ UNCHANGED objects
           ELSE /\ objects' = IF answer.rc = TPM_RC_SUCCESS
                              THEN objects \cup {answer.objectHandle} ELSE objects
                /\ Return("tpm2_load", answer.rc,
                          [out_handle |-> answer.objectHandle], 0)
    /\ UNCHANGED <<tss_context, call, sessions, nv, nv_buffer_max, nv_before,
                   files_before, last_write, files>>

(***************************************************************************)
(* tpm2_evictcontrol                                                       *)
(***************************************************************************)
\* 0x81000000 as a signed 32 bit number
PersistentHandle == -2130706432

\* a loaded transient object is made persistent, a persistent one is evicted
EvictControlAnswers(objectHandle, persistentHandle) ==
    (IF objectHandle \in TransientHandles \cap objects
        /\ persistentHandle \notin objects
     THEN {[rc |-> TPM_RC_SUCCESS, objects |-> objects \cup {persistentHandle}]}
     ELSE IF objectHandle = persistentHandle /\ persistentHandle \in objects
     THEN {[rc |-> TPM_RC_SUCCESS, objects |-> objects \ {persistentHandle}]}
     ELSE IF objectHandle \in objects
     THEN {[rc |-> "TPM_RC_NV_DEFINED", objects |-> objects]}
     ELSE {[rc |-> "TPM_RC_HANDLE", objects |-> objects]})
    \cup {[rc |-> e, objects |-> objects] : e \in DeviceFailures}

tpm2_evictcontrol ==
    /\ pc = "idle"
    /\ \E auth \in {TPM_RH_OWNER, TPM_RH_PLATFORM},
          obj_handle \in TransientHandles \cup {PersistentHandle} :
        /\ call' = [NoCall EXCEPT !.op = "tpm2_evictcontrol",
                                  !.hierarchy = auth, !.handle = obj_handle]
        /\ IF ~tss_context
           THEN /\ log' = <<>>
                /\ objects' = objects
                /\ Return("tpm2_evictcontrol", "TSS_RC_NULL_PARAMETER", <<>>, 0)
           ELSE \E answer \in EvictControlAnswers(obj_handle, PersistentHandle) :
                /\ log' = <<Cmd("TPM_CC_EvictControl", obj_handle,
                                [auth |-> auth, objectHandle |-> obj_handle,
                                 persistentHandle |-> PersistentHandle],
                                answer.rc)>>
                /\ objects' = answer.objects
                /\ Return("tpm2_evictcontrol", answer.rc, <<>>, 0)
    /\ UNCHANGED <<tss_context, sessions, nv, nv_buffer_max, nv_before,
                   files_before, last_write, files>>

(***************************************************************************)
(* tpm2_flushcontext, called by the layer's user                           *)
(***************************************************************************)
\* TSS_Execute with a null context dereferences it: the process is killed, or
\* a library that checks its argument returns an error and sends nothing
NullContextExecute == {"crash", "TSS_RC_NULL_PARAMETER"}

\* FlushContext of a handle that names nothing is refused
FlushAnswers(handle) ==
    (IF handle \in objects \cup sessions THEN {TPM_RC_SUCCESS}
     ELSE {"TPM_RC_HANDLE"})
    \cup DeviceFailures

tpm2_flushcontext ==
    /\ pc = "idle"
    /\ \E handle \in TransientHandles \cup SessionHandles :
        /\ call' = [NoCall EXCEPT !.op = "tpm2_flushcontext", !.handle = handle]
        /\ IF ~tss_context
           THEN \E outcome \in NullContextExecute :
                /\ log' = <<>>
                /\ UNCHANGED <<objects, sessions>>
                /\ IF outcome = "crash"
                   THEN pc' = "crashed" /\ l' = NoLocals /\ ret' = NoRet
                   ELSE Return("tpm2_flushcontext", outcome, <<>>, 0)
           ELSE \E rc \in FlushAnswers(handle) :
                /\ log' = <<FlushContextCmd(handle, rc)>>
                /\ objects' = objects \ {handle}
                /\ sessions' = SessionsAfterFlush(handle)
                /\ Return("tpm2_flushcontext", rc, <<>>, 0)
    /\ UNCHANGED <<tss_context, nv, nv_buffer_max, nv_before, files_before,
                   last_write, files>>

KeyNext ==
    \/ tss2_init
    \/ tss2_destroy
    \/ CallerContinues
    \/ tpm2_createprimary_asym
    \/ createprimary_exec
    \/ tpm2_create_asym
    \/ create_exec
    \/ tpm2_load
    \/ load_exec
    \/ tpm2_evictcontrol
    \/ tpm2_flushcontext

SpecKeys == Init /\ [][KeyNext]_vars

(***************************************************************************)
(* tpm2_powerup                                                            *)
(***************************************************************************)
\* the platform signals, in the order tpm2_powerup transmits them
PowerSignals == <<"TPM_SIGNAL_POWER_OFF", "TPM_SIGNAL_POWER_ON",
                  "TPM_SIGNAL_NV_ON">>

\* TSS_TransmitPlatform: the platform takes the signal or the transport fails
TransmitPlatformAnswers == {TPM_RC_SUCCESS} \cup DeviceFailures

powerup_after_signal_ignored(rc) == "next"

\* after the first and the second signal: a failure goes to err:
powerup_after_signal(rc) == IF rc # TPM_RC_SUCCESS THEN "err" ELSE "next"

\* one step: transmit PowerSignals[k]; the last signal falls through to err:
PowerupSignal(k, next_pc) ==
    \E rc \in TransmitPlatformAnswers :
        /\ log' = Append(log, Cmd(PowerSignals[k], NoHandle, <<>>, rc))
        /\ IF k = Len(PowerSignals) \/ powerup_after_signal(rc) = "err"
           THEN Return("tpm2_powerup", rc, <<>>, 0)
           ELSE pc' = next_pc /\ ret' = NoRet /\ l' = [l EXCEPT !.rc = rc]

tpm2_powerup ==
    /\ pc = "idle"
    /\ call' = [NoCall EXCEPT !.op = "tpm2_powerup"]
    /\ log' = <<>>
    /\ IF ~tss_context
       THEN Return("tpm2_powerup", "TSS_RC_NULL_PARAMETER", <<>>, 0)
       ELSE pc' = "powerup_off" /\ ret' = NoRet /\ l' = NoLocals
    /\ UNCHANGED <<tss_context, dev, nv_before, files_before, last_write, files>>

powerup_off ==
    /\ pc = "powerup_off"
    /\ PowerupSignal(1, "powerup_on")
    /\ UNCHANGED <<tss_context, call, dev, nv_before, files_before, last_write, files>>

powerup_on ==
    /\ pc = "powerup_on"
    /\ PowerupSignal(2, "powerup_nv_on")
    /\ UNCHANGED <<tss_context, call, dev, nv_before, files_before, last_write, files>>

powerup_nv_on ==
    /\ pc = "powerup_nv_on"
    /\ PowerupSignal(3, "powerup_nv_on")
    /\ UNCHANGED <<tss_context, call, dev, nv_before, files_before, last_write, files>>

(***************************************************************************)
(* tpm2_pcrextend                                                          *)
(***************************************************************************)
MaxDataLen == 2     \* longest short data string given to tpm2_pcrextend

\* data strings that fill the digest buffer exactly, and exceed it by one
FullData == [i \in 1..SizeofTPMU_HA |-> 1]

\* the registers and the hash banks named in the calls
PcrIndices == {0, 10, MaxPcrIndex}

HashBanks == {"TPM_ALG_SHA1", "TPM_ALG_SHA256"}

EXIT_FAILURE == "EXIT_FAILURE"

pcrextend_too_long_unchecked(data) == FALSE

\* strlen(data) > sizeof(TPMU_HA)
pcrextend_too_long(data) == Len(data) > SizeofTPMU_HA

\* memset(&digest, 0, sizeof(TPMU_HA)); memcpy(&digest, data, strlen(data))
pcrextend_digest(data) == Memcpy(Zeros(SizeofTPMU_HA), 0, data)

PCR_ExtendAnswers == {TPM_RC_SUCCESS} \cup DeviceFailures

tpm2_pcrextend ==
    /\ pc = "idle"
    /\ \E pcr_index \in PcrIndices, hash_alg \in HashBanks,
          data \in SeqsUpTo(Byte, MaxDataLen) \cup {FullData, LongPwd} :
        /\ call' = [NoCall EXCEPT !.op = "tpm2_pcrextend", !.handle = pcr_index,
                                  !.key_type = hash_alg, !.data = data,
                                  !.size = Len(data)]
        /\ log' = <<>>
        /\ IF ~tss_context
           THEN Return("tpm2_pcrextend", "TSS_RC_NULL_PARAMETER", <<>>, 0)
           ELSE IF pcrextend_too_long(data)
           THEN Return("tpm2_pcrextend", EXIT_FAILURE, <<>>, 0)
           ELSE /\ pc' = "pcrextend_exec"
                /\ ret' = NoRet
                /\ l' = [NoLocals EXCEPT !.in =
                           [pcrHandle |-> pcr_index, count |-> 1,
                            hashAlg |-> hash_alg,
                            digest |-> pcrextend_digest(data)]]
    /\ UNCHANGED <<tss_context, dev, nv_before, files_before, last_write, files>>

pcrextend_exec ==
    /\ pc = "pcrextend_exec"
    /\ \E rc \in PCR_ExtendAnswers :
        /\ log' = Append(log, Cmd("TPM_CC_PCR_Extend", l.in.pcrHandle, l.in, rc))
        /\ Return("tpm2_pcrextend", rc, <<>>, 0)
    /\ UNCHANGED <<tss_context, call, dev, nv_before, files_before, last_write, files>>

StartupNext ==
    \/ tss2_init
    \/ tss2_destroy
    \/ CallerContinues
    \/ tpm2_powerup
    \/ powerup_off
    \/ powerup_on
    \/ powerup_nv_on
    \/ tpm2_pcrextend
    \/ pcrextend_exec

SpecStartup == Init /\ [][StartupNext]_vars

(***************************************************************************)
(* Properties.                                                             *)
(***************************************************************************)
NvCalls == {"tpm2_nv_definespace", "tpm2_nv_write", "tpm2_nv_read"}

NvCommands == {"TPM_CC_NV_DefineSpace", "TPM_CC_NV_Write", "TPM_CC_NV_Read"}

Returned(op) == pc = "returned" /\ call.op = op

\* positions in log of the commands with command code cc
Issued(cc) == {i \in DOMAIN log : log[i].cc = cc}

\* positions of the StartAuthSession commands that opened a session
Opened == {i \in Issued("TPM_CC_StartAuthSession") : log[i].rc = TPM_RC_SUCCESS}

\* positions of the FlushContext commands for a session handle
FlushesOf(handle) == {j \in Issued("TPM_CC_FlushContext") : log[j].h = handle}

\* positions of the guarded NV command
Guarded == {i \in DOMAIN log : log[i].cc \in NvCommands}

Failed(cc) == \E i \in Issued(cc) : log[i].rc # TPM_RC_SUCCESS

\* the call reported success to its caller
ReportsSuccess == ret.rc \in {TPM_RC_SUCCESS, "NONNULL"}

\* C1: whenever no call is in progress all session slots of the device are
\* free: every session a call opened was flushed by the time it returned.
C1_SessionPoolFree == pc \in {"idle", "returned"} => sessions = {}

\* C2: when tpm2_getrandom_new returns after StartAuthSession succeeded, exactly
\* one FlushContext for that session handle has been issued, whether the
\* request loop ended with all bytes received or with a failed GetRandom.
C2_GetrandomFlushesOnce ==
    Returned("tpm2_getrandom_new") =>
        \A i \in Opened : Cardinality(FlushesOf(log[i].out)) = 1

\* C3: when an NV call returns, every session it opened has exactly one
\* FlushContext, issued after the StartAuthSession, whether the guarded NV
\* command succeeded or failed; a call that opened no session issued no
\* FlushContext.
C3_NvFlushExactlyOnce ==
    (pc = "returned" /\ call.op \in NvCalls) =>
        /\ Cardinality(Opened) <= 1
        /\ \A i \in Opened :
            /\ Cardinality(FlushesOf(log[i].out)) = 1
            /\ \A j \in FlushesOf(log[i].out) : j > i
        /\ Cardinality(Issued("TPM_CC_FlushContext")) = Cardinality(Opened)

\* an NV call whose guarded command failed has returned, its session flushed
C3_Witness ==
    /\ Returned("tpm2_nv_read")
    /\ Failed("TPM_CC_NV_Read")
    /\ Issued("TPM_CC_FlushContext") # {}

\* positions of the Quote commands whose answer passes all three checks: the
\* command succeeded, the attestation parses, and its extra data has the
\* length and the bytes of the qualifying data sent
QuoteVerified ==
    {i \in Issued("TPM_CC_Quote") :
        /\ log[i].rc = TPM_RC_SUCCESS
        /\ TPMS_ATTEST_Unmarshal(log[i].out.quoted).rc = TPM_RC_SUCCESS
        /\ LET extra == TPMS_ATTEST_Unmarshal(log[i].out.quoted).extraData
               sent  == log[i].p.qualifyingData
           IN  /\ Len(extra) = Len(sent)
               /\ \A k \in 1..Len(sent) : extra[k] = sent[k]}

\* C4: tpm2_quote_new returns a quote result only when the Quote command
\* succeeded, the attestation parsed and its extra data equals byte for byte
\* the qualifying data sent (the empty nonce for a NULL qualifying_data); in
\* every other case it returns NULL.
C4_QuoteNonceChecked ==
    Returned("tpm2_quote_new") =>
        /\ ret.rc \in {"NULL", "NONNULL"}
        /\ QuoteVerified = {} => ret.rc = "NULL"
        /\ call.qd = NULL_STR =>
            \A i \in Issued("TPM_CC_Quote") : log[i].p.qualifyingData = <<>>

\* the device answered with success and a well-formed attestation that carries
\* another nonce of the same length, and the call returned NULL
C4_Witness ==
    /\ Returned("tpm2_quote_new")
    /\ ret.rc = "NULL"
    /\ \E i \in Issued("TPM_CC_Quote") :
        /\ log[i].rc = TPM_RC_SUCCESS
        /\ TPMS_ATTEST_Unmarshal(log[i].out.quoted).rc = TPM_RC_SUCCESS
        /\ Len(TPMS_ATTEST_Unmarshal(log[i].out.quoted).extraData)
               = Len(log[i].p.qualifyingData)
        /\ Len(log[i].p.qualifyingData) > 0
        /\ TPMS_ATTEST_Unmarshal(log[i].out.quoted).extraData
               # log[i].p.qualifyingData

\* C5: for each of the four key classes, the template tpm2_createprimary_asym
\* sends in CreatePrimary has NODA, FIXEDTPM, FIXEDPARENT, RESTRICTED and
\* DECRYPT set and SIGN clear.
C5_PrimaryIsRestrictedDecrypt ==
    \A i \in Issued("TPM_CC_CreatePrimary") :
        call.key_type \in KeyTypes =>
            /\ {"TPMA_OBJECT_NODA", "TPMA_OBJECT_FIXEDTPM",
                "TPMA_OBJECT_FIXEDPARENT", "TPMA_OBJECT_RESTRICTED",
                "TPMA_OBJECT_DECRYPT"} \subseteq log[i].p.inPublic.objectAttributes
            /\ "TPMA_OBJECT_SIGN" \notin log[i].p.inPublic.objectAttributes

\* C6: an NV call that opened a session returns the guarded command's response
\* code when that command failed, whatever the flush returned, and the flush's
\* response code when the guarded command succeeded.
C6_NvResultPrecedence ==
    (pc = "returned" /\ call.op \in NvCalls /\ Opened # {}) =>
        \E c \in Guarded, f \in Issued("TPM_CC_FlushContext") :
            /\ c < f
            /\ ret.rc = IF log[c].rc # TPM_RC_SUCCESS THEN log[c].rc ELSE log[f].rc

\* the guarded command and the flush failed with different codes
C6_Witness ==
    /\ Returned("tpm2_nv_write")
    /\ \E c \in Guarded, f \in Issued("TPM_CC_FlushContext") :
        /\ log[c].rc # TPM_RC_SUCCESS
        /\ log[f].rc # TPM_RC_SUCCESS
        /\ log[f].rc # log[c].rc
        /\ ret.rc = log[c].rc

\* the primary commands of the call all succeeded and its flush failed
PrimaryOkFlushFailed ==
    /\ pc = "returned"
    /\ call.op \in NvCalls \cup {"tpm2_getrandom_new"}
    /\ Failed("TPM_CC_FlushContext")
    /\ \A i \in DOMAIN log :
        log[i].cc \in NvCommands \cup {"TPM_CC_GetRandom"} =>
            log[i].rc = TPM_RC_SUCCESS

\* C7 as stated: in every operation that opens a session, tpm2_getrandom_new
\* included, a failed flush after successful primary commands makes the
\* operation report failure.
C7_FlushFailureMasksSuccess == PrimaryOkFlushFailed => ~ReportsSuccess

\* C7 amended: in the three NV calls a failed flush after a successful guarded
\* command is the call's result; tpm2_getrandom_new only logs the failed
\* flush and still returns the buffer of rand_length bytes.
C7_FlushFailureMasksNvSuccess ==
    PrimaryOkFlushFailed =>
        IF call.op \in NvCalls
        THEN \E f \in Issued("TPM_CC_FlushContext") :
                ret.rc = log[f].rc /\ ret.rc # TPM_RC_SUCCESS
        ELSE ret.rc = "NONNULL" /\ Len(ret.out) = call.size

C7_Witness ==
    /\ PrimaryOkFlushFailed
    /\ call.op = "tpm2_nv_write"
    /\ ~Failed("TPM_CC_NV_Write")
    /\ Issued("TPM_CC_NV_Write") # {}

\* C8: a call during which any device command returned a non-success response
\* code reports failure to its caller.
C8_NoDowngrade ==
    (pc = "returned" /\ \E i \in DOMAIN log : log[i].rc # TPM_RC_SUCCESS) =>
        ~ReportsSuccess

\* C9: tpm2_nv_write with a payload longer than the device's maximum transfer
\* size returns TSS_RC_INSUFFICIENT_BUFFER, has sent no command but the
\* capability query, and leaves the index as it was.
C9_WriteOverMaxRejected ==
    (Returned("tpm2_nv_write") /\ log # <<>> /\ call.size > nv_buffer_max) =>
        /\ ret.rc = "TSS_RC_INSUFFICIENT_BUFFER"
        /\ \A i \in DOMAIN log : log[i].cc = "TPM_CC_GetCapability"
        /\ nv = nv_before

\* a tpm2_nv_read with the password of, and an output buffer large enough for,
\* the payload of the last successful tpm2_nv_write has returned success
ReadAfterWrite ==
    /\ Returned("tpm2_nv_read")
    /\ last_write.valid
    /\ Len(last_write.data) <= nv_buffer_max
    /\ call.pwd = last_write.pwd
    /\ call.size >= Len(last_write.data)
    /\ ret.rc = TPM_RC_SUCCESS

\* C10 as stated: the read returns exactly the bytes written, with the
\* payload's length as output length.
C10_RoundTrip ==
    ReadAfterWrite =>
        ret.out_length = Len(last_write.data) /\ ret.out = last_write.data

\* C10 amended: the read returns the first n bytes of the index, n being the
\* declared size that NV_ReadPublic reported (0 when that query failed); the
\* output length is n and the first min(n, L) bytes are those of the payload,
\* so the result is exactly the payload when n = L.
C10_ReadReturnsDeclaredSize ==
    ReadAfterWrite =>
        LET n == IF Failed("TPM_CC_NV_ReadPublic") THEN 0 ELSE nv.dataSize
            L == Len(last_write.data)
        IN  /\ ret.out_length = n
            /\ Len(ret.out) = n
            /\ \A i \in Issued("TPM_CC_NV_Read") : log[i].p.size = n
            /\ \A i \in 1..Min(n, L) : ret.out[i] = last_write.data[i]
            /\ n = L => ret.out = last_write.data

C10_Witness ==
    /\ ReadAfterWrite
    /\ Len(last_write.data) = MaxNvSize
    /\ ret.out = last_write.data

\* every device command of the call was answered with success
DeviceAccepted == \A i \in DOMAIN log : log[i].rc = TPM_RC_SUCCESS

\* C11: with a device that accepts the commands, define(size S), write(S
\* bytes), read succeed at every step for S within the device's maximum
\* transfer size: a tpm2_nv_definespace with a well-formed index handle and
\* password returns success and leaves the index defined with size S; a
\* tpm2_nv_write of S bytes to it returns success and the index holds the
\* payload; a tpm2_nv_read of it into a buffer of at least S bytes returns
\* success, the S bytes written and output length S.
C11_DefineWriteRead ==
    (pc = "returned" /\ tss_context /\ DeviceAccepted
        /\ nv_handle_ok(call.handle)) =>
        /\ (call.op = "tpm2_nv_definespace" /\ call.pwd # LongPwd) =>
            /\ ret.rc = TPM_RC_SUCCESS
            /\ nv.defined /\ nv.dataSize = call.size /\ ~nv.written
        /\ (call.op = "tpm2_nv_write" /\ nv_before.defined
                /\ call.size = nv_before.dataSize
                /\ call.size <= nv_buffer_max) =>
            /\ ret.rc = TPM_RC_SUCCESS
            /\ nv.data = call.data
            /\ last_write.valid /\ last_write.data = call.data
        /\ (call.op = "tpm2_nv_read" /\ last_write.valid
                /\ Len(last_write.data) = nv.dataSize
                /\ nv.dataSize <= nv_buffer_max
                /\ call.size >= nv.dataSize) =>
            /\ ret.rc = TPM_RC_SUCCESS
            /\ ret.out = last_write.data
            /\ ret.out_length = nv.dataSize

\* the read of the sequence has returned: five accepted commands, and the
\* payload of the largest size back
C11_Witness ==
    /\ Returned("tpm2_nv_read")
    /\ tss_context /\ DeviceAccepted /\ Len(log) = 5
    /\ last_write.valid
    /\ Len(last_write.data) = nv.dataSize
    /\ nv.dataSize = nv_buffer_max
    /\ ret.rc = TPM_RC_SUCCESS
    /\ ret.out_length = nv.dataSize

\* C12: tpm2_nv_write of S+1 bytes to an index of declared size S returns an
\* error and leaves the index as it was, also when S+1 is within the device's
\* maximum transfer size.
C12_WriteBeyondDeclaredSize ==
    (Returned("tpm2_nv_write") /\ nv_before.defined
        /\ call.size = nv_before.dataSize + 1) =>
        /\ ret.rc # TPM_RC_SUCCESS
        /\ nv = nv_before

\* S+1 bytes within the maximum transfer size went to the device, which
\* answered with a range error, and the session was closed without error
C12_Witness ==
    /\ Returned("tpm2_nv_write")
    /\ nv_before.defined
    /\ call.size = nv_before.dataSize + 1
    /\ call.size <= nv_buffer_max
    /\ \E i \in Issued("TPM_CC_NV_Write") : log[i].rc = "TPM_RC_NV_RANGE"
    /\ ~Failed("TPM_CC_FlushContext")
    /\ ret.rc = "TPM_RC_NV_RANGE"

\* a tpm2_nv_read that got past its context and handle checks has returned
ReadSized ==
    /\ Returned("tpm2_nv_read")
    /\ Issued("TPM_CC_NV_ReadPublic") # {}
    /\ Issued("TPM_CC_GetCapability") # {}

\* the call ended with the capacity error before a session was opened
ReadRejected ==
    /\ ret.rc = "TSS_RC_INSUFFICIENT_BUFFER"
    /\ Issued("TPM_CC_StartAuthSession") = {}
    /\ Issued("TPM_CC_NV_Read") = {}

\* C13 as stated: the read is rejected when the declared size exceeds the
\* caller's capacity, when the device's maximum transfer size exceeds the
\* caller's capacity, or when the declared size exceeds the device's maximum
\* transfer size; otherwise it requests the declared size at offset zero.
C13_ReadCapacityChecks ==
    (ReadSized /\ nv.defined) =>
        IF \/ nv.dataSize > call.size
           \/ nv_buffer_max > call.size
           \/ nv.dataSize > nv_buffer_max
        THEN ReadRejected
        ELSE \A i \in Issued("TPM_CC_NV_Read") :
                log[i].p = [size |-> nv.dataSize, offset |-> 0]

\* the data size tpm2_nv_read works with: the declared size, 0 when
\* NV_ReadPublic failed
ReadDataSize == IF Failed("TPM_CC_NV_ReadPublic") THEN 0 ELSE nv.dataSize

\* the maximum transfer size tpm2_nv_read works with: the device's, the
\* default when GetCapability failed or answered with no property
ReadBufferMax ==
    IF \E i \in Issued("TPM_CC_GetCapability") :
            log[i].rc = TPM_RC_SUCCESS /\ log[i].out.count > 0
    THEN nv_buffer_max ELSE DefaultBufferSize

\* C13 amended: the read is rejected, before a session is opened, exactly when
\* the data size it obtained exceeds the maximum transfer size it obtained or
\* the caller's capacity; the maximum transfer size is not compared with the
\* caller's capacity; otherwise a session is requested and any NV_Read asks
\* for that data size at offset zero.
C13_ReadChecksDataSize ==
    ReadSized =>
        IF ReadDataSize > ReadBufferMax \/ ReadDataSize > call.size
        THEN ReadRejected
        ELSE /\ Issued("TPM_CC_StartAuthSession") # {}
             /\ \A i \in Issued("TPM_CC_NV_Read") :
                    log[i].p = [size |-> ReadDataSize, offset |-> 0]

\* the declared size fits the device but not the caller's buffer: rejected
C13_Witness ==
    /\ ReadSized
    /\ DeviceAccepted
    /\ nv.defined
    /\ nv.dataSize > call.size
    /\ nv.dataSize <= nv_buffer_max
    /\ ReadRejected
    /\ Len(log) = 2

\* the GetRandom commands of the call, in order
RandomRequests == SelectSeq(log, LAMBDA c : c.cc = "TPM_CC_GetRandom")

RECURSIVE Received(_, _)
\* the bytes of the first n responses, one after the other
Received(requests, n) ==
    IF n = 0 THEN <<>> ELSE Received(requests, n - 1) \o requests[n].out

\* C14: when the session was opened and every GetRandom was answered with 1
\* to MaxChunk bytes and no more than requested, tpm2_getrandom_new(N), N >= 1,
\* returns N bytes, the responses' bytes in order; each request asks for N less
\* the bytes received so far; at least ceil(N / MaxChunk) requests are sent.
C14_GetrandomChunks ==
    (Returned("tpm2_getrandom_new") /\ call.size >= 1 /\ Opened # {}
        /\ ~Failed("TPM_CC_GetRandom")) =>
        /\ ret.rc = "NONNULL"
        /\ Len(ret.out) = call.size
        /\ ret.out = Received(RandomRequests, Len(RandomRequests))
        /\ \A i \in 1..Len(RandomRequests) :
            /\ RandomRequests[i].p = call.size - Len(Received(RandomRequests, i - 1))
            /\ Len(RandomRequests[i].out) \in 1..Min(RandomRequests[i].p, MaxChunk)
        /\ Len(RandomRequests) >= (call.size + MaxChunk - 1) \div MaxChunk

\* the longest buffer, filled by more than one response with different bytes
C14_Witness ==
    /\ Returned("tpm2_getrandom_new")
    /\ ret.rc = "NONNULL"
    /\ call.size = MaxRand
    /\ Len(RandomRequests) > 1
    /\ RandomRequests[1].out # RandomRequests[2].out
    /\ ret.out[1] # ret.out[MaxRand]

StorageClasses == {"TPM2D_KEY_TYPE_STORAGE_U", "TPM2D_KEY_TYPE_STORAGE_R"}

SigningClasses == {"TPM2D_KEY_TYPE_SIGNING_U", "TPM2D_KEY_TYPE_SIGNING_R"}

RestrictedClasses == {"TPM2D_KEY_TYPE_STORAGE_R", "TPM2D_KEY_TYPE_SIGNING_R"}

\* C15: for every key class and every object_vals, the template tpm2_create_asym
\* sends has exactly one of SIGN and DECRYPT: DECRYPT for the storage classes,
\* SIGN for the signing classes; RESTRICTED is set exactly for the restricted
\* classes.
C15_SignXorDecrypt ==
    \A i \in Issued("TPM_CC_Create") :
        LET attrs == log[i].p.inPublic.objectAttributes IN
        /\ call.key_type \in KeyTypes
        /\ ("TPMA_OBJECT_SIGN" \in attrs) # ("TPMA_OBJECT_DECRYPT" \in attrs)
        /\ "TPMA_OBJECT_DECRYPT" \in attrs <=> call.key_type \in StorageClasses
        /\ "TPMA_OBJECT_SIGN" \in attrs <=> call.key_type \in SigningClasses
        /\ "TPMA_OBJECT_RESTRICTED" \in attrs <=> call.key_type \in RestrictedClasses

\* an unrestricted signing key was asked for with object_vals that say
\* restricted decryption, and the template sent is SIGN only
C15_Witness ==
    /\ Returned("tpm2_create_asym")
    /\ call.key_type = "TPM2D_KEY_TYPE_SIGNING_U"
    /\ call.object_vals = {"TPMA_OBJECT_DECRYPT", "TPMA_OBJECT_RESTRICTED"}
    /\ \E i \in Issued("TPM_CC_Create") :
        /\ "TPMA_OBJECT_SIGN" \in log[i].p.inPublic.objectAttributes
        /\ "TPMA_OBJECT_DECRYPT" \notin log[i].p.inPublic.objectAttributes
        /\ "TPMA_OBJECT_RESTRICTED" \notin log[i].p.inPublic.objectAttributes

\* C16: in both builds the template of a restricted class carries a non-null
\* symmetric algorithm and the template of an unrestricted class carries the
\* null symmetric algorithm.
C16_SymmetricIffRestricted ==
    \A i \in Issued("TPM_CC_Create") \cup Issued("TPM_CC_CreatePrimary") :
        (log[i].p.inPublic.parameters.symmetric # "TPM_ALG_NULL")
            <=> call.key_type \in RestrictedClasses

\* a call of one of the two operations that build a key template has returned
TemplateCallReturned ==
    pc = "returned" /\ call.op \in {"tpm2_createprimary_asym", "tpm2_create_asym"}

\* C17: a key class outside the four makes tpm2_createprimary_asym and
\* tpm2_create_asym return an error with no device command issued, no blob
\* written and the output handle not written; the error is TPM_RC_VALUE when
\* the context exists and the key password fits its buffer (those two checks
\* come first and return their own code).
C17_UnsupportedClassFailsFast ==
    (TemplateCallReturned /\ call.key_type \notin KeyTypes) =>
        /\ ret.rc # TPM_RC_SUCCESS
        /\ log = <<>>
        /\ files = files_before
        /\ call.op = "tpm2_createprimary_asym" => ret.out.out_handle = NoHandle
        /\ (tss_context /\ call.pwd # LongPwd) => ret.rc = "TPM_RC_VALUE"

\* tpm2_create_asym was given the unsupported class, with the context in place
\* and file names for both blobs, and returned TPM_RC_VALUE
C17_Witness ==
    /\ Returned("tpm2_create_asym")
    /\ tss_context
    /\ call.key_type = OtherKeyType
    /\ call.file = PubKeyFile /\ call.file_priv = PrivKeyFile
    /\ ret.rc = "TPM_RC_VALUE"

\* C18: an operation invoked while the context does not exist returns an
\* error (or NULL) without a device command, and the process survives it.
C18_NoContextFailsFast ==
    /\ pc # "crashed"
    /\ (pc = "returned" /\ ~tss_context) =>
        /\ ~ReportsSuccess
        /\ log = <<>>

KeyCommands == {"TPM_CC_CreatePrimary", "TPM_CC_Create", "TPM_CC_Load",
                "TPM_CC_EvictControl"}

\* C19: when the device command of tpm2_createprimary_asym, tpm2_create_asym,
\* tpm2_load or tpm2_evictcontrol fails, the call returns that response code,
\* writes no blob and does not write the output handle.
C19_KeyCommandFailure ==
    \A i \in DOMAIN log :
        (pc = "returned" /\ log[i].cc \in KeyCommands
            /\ log[i].rc # TPM_RC_SUCCESS) =>
            /\ ret.rc = log[i].rc
            /\ files = files_before
            /\ call.op \in {"tpm2_createprimary_asym", "tpm2_load"} =>
                ret.out.out_handle = NoHandle

\* Create failed for a call that was to save both blobs over existing ones
C19_Witness ==
    /\ Returned("tpm2_create_asym")
    /\ Failed("TPM_CC_Create")
    /\ call.file = PubKeyFile /\ call.file_priv = PrivKeyFile
    /\ files # {}
    /\ ret.rc = "TPM_RC_FAILURE"

\* C20: within a call, after a device command returned a failure code no
\* command with the same command code is sent; the GetRandom loop ends at the
\* first failed GetRandom.
C20_NoRetries ==
    \A i \in DOMAIN log : \A j \in DOMAIN log :
        (i < j /\ log[i].rc # TPM_RC_SUCCESS) => log[j].cc # log[i].cc

\* a GetRandom failed after an earlier one had succeeded with bytes missing,
\* and the call returned NULL without another request
C20_Witness ==
    /\ Returned("tpm2_getrandom_new")
    /\ Len(RandomRequests) = 2
    /\ RandomRequests[1].rc = TPM_RC_SUCCESS
    /\ RandomRequests[2].rc # TPM_RC_SUCCESS
    /\ Len(RandomRequests[1].out) < call.size
    /\ ret.rc = "NULL"

\* bit r of a PCR selection bitmap: byte r / 8, bit r % 8
PcrBit(pcrSelect, r) == (pcrSelect[(r \div 8) + 1] \div (2 ^ (r % 8))) % 2 = 1

\* the registers a PCR selection bitmap selects
PcrSelected(pcrSelect) == {r \in 0..MaxPcrIndex : PcrBit(pcrSelect, r)}

\* C21: for every pcr_count n that tpm2_quote_new accepts, the PCR selection
\* sent in the Quote command selects exactly the registers 0..n.
C21_QuoteSelectsRange ==
    \A i \in Issued("TPM_CC_Quote") :
        PcrSelected(log[i].p.pcrSelect) = 0..call.size

\* C28: the bitmap tpm2_quote_new sends is computed from the count alone: for
\* a count n in 1..23 exactly the bit of register n is set, for n = 0 no bit
\* is set, and for n > 23 the call returns NULL without any device command.
C28_QuoteSelectsCountBit ==
    /\ \A i \in Issued("TPM_CC_Quote") :
        /\ call.size <= MaxPcrIndex
        /\ PcrSelected(log[i].p.pcrSelect) =
               (IF call.size = 0 THEN {} ELSE {call.size})
        /\ log[i].p.sizeofSelect = 3
    /\ (Returned("tpm2_quote_new") /\ call.size > MaxPcrIndex) =>
           ret.rc = "NULL" /\ log = <<>>

\* a quote for the count 10 was sent and its result returned
C28_Witness ==
    /\ Returned("tpm2_quote_new")
    /\ call.size = 10
    /\ Issued("TPM_CC_Quote") # {}
    /\ ret.rc = "NONNULL"

\* C27: in a result of tpm2_quote_new whose signature was marshaled, the
\* signature string is the hex encoding of exactly the marshaled signature
\* bytes, two characters per byte and nothing of what lies behind the buffer,
\* and the attestation string is the hex encoding of the attestation bytes.
C27_QuoteStringsExact ==
    (Returned("tpm2_quote_new") /\ ret.rc = "NONNULL"
       /\ ret.out.signature_str # NULL_STR) =>
        \A i \in Issued("TPM_CC_Quote") :
            /\ Len(ret.out.signature_str) = 2 * Len(log[i].out.signature)
            /\ ret.out.signature_str =
                   convert_bin_to_hex_new(log[i].out.signature,
                                          Len(log[i].out.signature))
            /\ Len(ret.out.quoted_str) = 2 * Len(log[i].out.quoted)

\* the calls that guard a command with a session, and the commands they guard
SessionCalls == NvCalls \cup {"tpm2_getrandom_new"}

GuardedCommands == NvCommands \cup {"TPM_CC_GetRandom"}

SizingQueries == {"TPM_CC_NV_ReadPublic", "TPM_CC_GetCapability"}

\* positions in log of the guarded commands of the call
GuardedAt == {i \in DOMAIN log : log[i].cc \in GuardedCommands}

\* C22: in the commands of one NV or getrandom call, the command after a
\* StartAuthSession that opened a session is the first guarded command, the
\* guarded commands are consecutive, the command after the last guarded
\* command is the FlushContext that closes the session, and every sizing
\* query comes before the StartAuthSession.
C22_SessionBracketsCommand ==
    (pc = "returned" /\ call.op \in SessionCalls) =>
        /\ \A i \in Opened : i + 1 \in GuardedAt
        /\ \A i \in GuardedAt :
            /\ i - 1 \in Opened \cup GuardedAt
            /\ i + 1 \in GuardedAt \cup Issued("TPM_CC_FlushContext")
        /\ \A j \in Issued("TPM_CC_FlushContext") :
            j - 1 \in GuardedAt /\ \E i \in Opened : log[j].h = log[i].out
        /\ \A q \in DOMAIN log : \A i \in Issued("TPM_CC_StartAuthSession") :
            log[q].cc \in SizingQueries => q < i

\* C23: an NV call given an index handle whose type tag is not the NV-index
\* tag returns an error without any device command and leaves the index as it
\* was; with a context that error is
\* TSS_RC_BAD_HANDLE_NUMBER (without one the context check comes first).
C23_BadHandleFailsFast ==
    (pc = "returned" /\ call.op \in NvCalls
       /\ HandleType(call.handle) # TPM_HT_NV_INDEX) =>
        /\ log = <<>>
        /\ ~ReportsSuccess
        /\ nv = nv_before
        /\ tss_context => ret.rc = "TSS_RC_BAD_HANDLE_NUMBER"

\* tpm2_nv_read was given a session handle as index, with a context and a
\* defined index on the device
C23_Witness ==
    /\ Returned("tpm2_nv_read")
    /\ call.handle = BadNvHandle
    /\ tss_context
    /\ nv.defined
    /\ ret.rc = "TSS_RC_BAD_HANDLE_NUMBER"

\* the string consists of hexadecimal digits
AllHexDigits(hex_str) == \A i \in DOMAIN hex_str : IsHexDigit(hex_str[i])

\* the string with its digits in lower case
LowerCase(hex_str) ==
    [i \in DOMAIN hex_str |-> HexLower[DigitValue(hex_str[i]) + 1]]

\* convert_hex_to_bin_new applied to the string convert_bin_to_hex_new
\* returned gives back the bytes and their count
BinHexBin ==
    Returned("convert_bin_to_hex_new") =>
        /\ Len(ret.out) = 2 * Len(call.data)
        /\ convert_hex_to_bin_new(ret.out) =
               [ok |-> TRUE, bin |-> call.data, out_length |-> Len(call.data)]

\* an even-length string of hexadecimal digits was converted to bytes
EvenHexConverted ==
    /\ Returned("convert_hex_to_bin_new")
    /\ Len(call.qd) % 2 = 0
    /\ AllHexDigits(call.qd)

\* C24: the two conversions are inverse to each other: bytes to hex and back
\* gives the bytes with their length, and an even-length string of
\* hexadecimal digits to bytes and back gives the string.
C24_HexRoundTrip ==
    /\ BinHexBin
    /\ EvenHexConverted =>
        /\ ret.rc = "NONNULL"
        /\ convert_bin_to_hex_new(ret.out, ret.out_length) = call.qd

\* C24 as the code has it: bytes to hex and back gives the bytes with their
\* length; an even-length string of hexadecimal digits to bytes and back
\* gives the string with its digits in lower case, which is the string
\* itself when it has no upper-case digit.
C24_HexRoundTripLowerCase ==
    /\ BinHexBin
    /\ EvenHexConverted =>
        /\ ret.rc = "NONNULL"
        /\ ret.out_length = Len(call.qd) \div 2
        /\ convert_bin_to_hex_new(ret.out, ret.out_length) = LowerCase(call.qd)

\* the string "aF" was converted to the byte 0xaf
C24_Witness ==
    /\ Returned("convert_hex_to_bin_new")
    /\ call.qd = <<"a", "F">>
    /\ ret.out = <<175>>

\* C25: for an odd-length string of hexadecimal digits convert_hex_to_bin_new
\* returns (length + 1) / 2 bytes, the bytes it returns for "0" followed by
\* the string: the first byte is the value of the first digit.
C25_OddLengthPadsLeadingZero ==
    (Returned("convert_hex_to_bin_new") /\ Len(call.qd) % 2 = 1
       /\ AllHexDigits(call.qd)) =>
        /\ ret.rc = "NONNULL"
        /\ ret.out_length = (Len(call.qd) + 1) \div 2
        /\ Len(ret.out) = ret.out_length
        /\ ret.out = convert_hex_to_bin_new(<<"0">> \o call.qd).bin
        /\ ret.out[1] = DigitValue(call.qd[1])

\* "abc" was converted to 0x0a, 0xbc
C25_Witness ==
    /\ Returned("convert_hex_to_bin_new")
    /\ call.qd = <<"a", "b", "c">>
    /\ ret.out = <<10, 188>>
    /\ ret.out_length = 2

\* C29: with a context, tpm2_pcrextend given data longer than the digest
\* buffer fails without a PCR_Extend command; given data of length L that
\* fits, it sends one PCR_Extend for the register and the bank of the call,
\* with one digest whose buffer holds the L data bytes and then zero bytes up
\* to the size of the buffer, and returns the code of that command.
C29_PcrExtendPadsOrFails ==
    (Returned("tpm2_pcrextend") /\ tss_context) =>
        IF Len(call.data) > SizeofTPMU_HA
        THEN ~ReportsSuccess /\ log = <<>>
        ELSE /\ Len(log) = 1
             /\ log[1].cc = "TPM_CC_PCR_Extend"
             /\ log[1].p.pcrHandle = call.handle
             /\ log[1].p.hashAlg = call.key_type
             /\ log[1].p.count = 1
             /\ Len(log[1].p.digest) = SizeofTPMU_HA
             /\ \A i \in 1..SizeofTPMU_HA :
                 log[1].p.digest[i] =
                     (IF i <= Len(call.data) THEN call.data[i] ELSE 0)
             /\ ret.rc = log[1].rc

\* a call with data one byte longer than the buffer was refused
C29_Witness ==
    /\ Returned("tpm2_pcrextend")
    /\ tss_context
    /\ Len(call.data) = SizeofTPMU_HA + 1
    /\ ret.rc = EXIT_FAILURE

\* C30: tpm2_powerup transmits the signals power-off, power-on, NV-on in that
\* order, each at most once; every signal but the last one sent succeeded, a
\* signal that failed is the last one sent and its code is returned, and
\* success is returned only when all three were sent and succeeded.
C30_PowerupOrder ==
    call.op = "tpm2_powerup" =>
        /\ Len(log) <= Len(PowerSignals)
        /\ \A i \in DOMAIN log :
            /\ log[i].cc = PowerSignals[i]
            /\ i < Len(log) => log[i].rc = TPM_RC_SUCCESS
        /\ pc = "returned" =>
            /\ log # <<>> => ret.rc = log[Len(log)].rc
            /\ (log # <<>> /\ Len(log) < Len(PowerSignals)) =>
                   log[Len(log)].rc # TPM_RC_SUCCESS
            /\ log = <<>> => ret.rc = "TSS_RC_NULL_PARAMETER"
            /\ ReportsSuccess =>
                   /\ Len(log) = Len(PowerSignals)
                   /\ \A i \in DOMAIN log : log[i].rc = TPM_RC_SUCCESS

\* the power-on signal failed after power-off had succeeded
C30_Witness ==
    /\ Returned("tpm2_powerup")
    /\ Len(log) = 2
    /\ log[2].rc = "TPM_RC_FAILURE"
    /\ ret.rc = "TPM_RC_FAILURE"

Max(a, b) == IF a > b THEN a ELSE b

\* a call of tpm2_getrandom_new is running
GetrandomRunning == pc \in {"getrandom_start", "getrandom_loop", "getrandom_flush"}

\* the bounds of the request loop: requests sent, bytes received
GetrandomBounded ==
    call.op = "tpm2_getrandom_new" =>
        /\ Len(RandomRequests) <= Max(call.size, 1)
        /\ l.recv_bytes <= call.size
        /\ Len(Received(RandomRequests, Len(RandomRequests))) <= call.size

\* C26: every call of tpm2_getrandom_new returns, against a device whose
\* GetRandom answers fail or carry at least one byte and no more than
\* requested; it sends at most max(N, 1) GetRandom requests and the count of
\* received bytes is never above N.
C26_GetrandomTerminates ==
    /\ []GetrandomBounded
    /\ GetrandomRunning ~> (pc = "returned")

\* all MaxRand bytes were received one at a time, and the call returned them
C26_Witness ==
    /\ Returned("tpm2_getrandom_new")
    /\ call.size = MaxRand
    /\ Len(RandomRequests) = MaxRand
    /\ ret.rc = "NONNULL"

\* handles of the objects the CreatePrimary commands of the call created
PrimariesCreated ==
    {log[i].out.objectHandle :
        i \in {j \in Issued("TPM_CC_CreatePrimary") : log[j].rc = TPM_RC_SUCCESS}}

\* C31: when tpm2_createprimary_asym returns a code other than success, no
\* object the call created is still loaded in the device and the caller's
\* output handle was not written, also when CreatePrimary succeeded and the
\* write of the public blob failed.
C31_FailedPrimaryLeavesNothing ==
    (Returned("tpm2_createprimary_asym") /\ ~ReportsSuccess) =>
        /\ PrimariesCreated \cap objects = {}
        /\ ret.out.out_handle = NoHandle

====
